---- MODULE Spec2Model ----
(* Radix-tree router of gin (src/tree.go) and the engine entry points that   *)
(* drive it (src/gin.go).  Strings are sequences of one-character strings;   *)
(* Go's 0-based half-open slices are kept through Slice and At so that the   *)
(* index arithmetic of the source can be read off directly.                  *)
(*                                                                           *)
(* Spec       the router of one method: registrations and lookups            *)
(* SpecClean  cleanPath on bounded inputs                                    *)
(* SpecChain  one request running a handler chain through Next and Abort     *)
(* SpecGroups router groups composing middleware into the chains of routes   *)
(* SpecServe  requests answered over the trees of two methods                *)
(* SpecConc   goroutines looking paths up at once in a tree that is built    *)
(* SpecContext one pooled Context over successive requests, and its copies   *)
(* SpecKeys   goroutines calling Set, the getters and Copy on one Context    *)
(* SpecRecover a chain with the recovery middleware and handlers that panic  *)
(* SpecFix    registrations and case-insensitive lookups of request paths    *)
EXTENDS Integers, Sequences, FiniteSets, TLC

VARIABLES trees, maxParams, maxSections, accepted, last, arg, panicMsg, value,
          cp, ctx, rg, srv, conc, rq, lk, rec, fix

\* The router's part of the state.
routerVars == <<trees, maxParams, maxSections, accepted, last, arg, panicMsg, value>>

vars == <<trees, maxParams, maxSections, accepted, last, arg, panicMsg, value,
          cp, ctx, rg, srv, conc, rq, lk, rec, fix>>

\* What each specification leaves alone.
besideRouter == <<cp, ctx, rg, srv, conc, rq, lk, rec, fix>>

besideClean == <<routerVars, ctx, rg, srv, conc, rq, lk, rec, fix>>

besideChain == <<routerVars, cp, rg, srv, conc, rq, lk, rec, fix>>

besideGroups == <<routerVars, cp, ctx, srv, conc, rq, lk, rec, fix>>

besideServe == <<accepted, last, arg, panicMsg, value, cp, ctx, rg, conc, rq, lk, rec, fix>>

besideConc == <<accepted, last, arg, panicMsg, value, cp, ctx, rg, srv, rq, lk, rec, fix>>

besideContext == <<routerVars, cp, ctx, rg, srv, conc, lk, rec, fix>>

besideKeys == <<routerVars, cp, ctx, rg, srv, conc, rq, rec, fix>>

besideRecover == <<routerVars, cp, ctx, rg, srv, conc, rq, lk, fix>>

besideFix == <<accepted, last, arg, panicMsg, value, cp, ctx, rg, srv, conc, rq, lk, rec>>

\* The value of a part of the state that a specification does not use.
Unused == "unused"

\* ------------------------------------------------------------------ strings

\* s[lo:hi]
Slice(s, lo, hi) == SubSeq(s, lo + 1, hi)

\* s[lo:]
From(s, lo) == SubSeq(s, lo + 1, Len(s))

\* s[k]
At(s, k) == s[k + 1]

HasPrefix(s, p) == Len(s) >= Len(p) /\ SubSeq(s, 1, Len(p)) = p

HasSuffix(s, p) == Len(s) >= Len(p) /\ SubSeq(s, Len(s) - Len(p) + 1, Len(s)) = p

Count(s, c) == Cardinality({k \in 1..Len(s) : s[k] = c})

Max2(a, b) == IF a >= b THEN a ELSE b

min(a, b) == IF a <= b THEN a ELSE b

RECURSIVE lcpFrom(_, _, _)
lcpFrom(a, b, i) ==
  IF i < min(Len(a), Len(b)) /\ At(a, i) = At(b, i) THEN lcpFrom(a, b, i + 1) ELSE i

longestCommonPrefix(a, b) == lcpFrom(a, b, 0)

countParams(path) == Count(path, ":") + Count(path, "*")

countSections(path) == Count(path, "/")

\* ------------------------------------------------------------------ nodes

nilHandlers == <<>>

newNode ==
  [path |-> <<>>, indices |-> <<>>, wildChild |-> FALSE, nType |-> "static",
   priority |-> 0, children |-> <<>>, handlers |-> nilHandlers, fullPath |-> <<>>]

\* The outcome of a mutating call: the node as the call left it, and the
\* panic it raised ("" when it returned normally).
Ret(n, msg) == [n |-> n, panic |-> msg]

LastOf(s) == s[Len(s)]

addChild(n, child) ==
  IF n.wildChild /\ Len(n.children) > 0
    THEN [n EXCEPT !.children =
            SubSeq(n.children, 1, Len(n.children) - 1) \o <<child, LastOf(n.children)>>]
    ELSE [n EXCEPT !.children = Append(n.children, child)]

\* Position (0-based) the child at pos ends at after the swaps of the loop.
RECURSIVE newPosOf(_, _, _)
newPosOf(cs, newPos, prio) ==
  IF newPos > 0 /\ At(cs, newPos - 1).priority < prio
    THEN newPosOf(cs, newPos - 1, prio)
    ELSE newPos

\* Move the element at pos to newPos, shifting the ones between to the right.
MoveTo(s, pos, newPos) ==
  Slice(s, 0, newPos) \o Slice(s, pos, pos + 1) \o Slice(s, newPos, pos) \o From(s, pos + 1)

\* incrementChildPrio that moves the child and leaves indices as it was.
incrementChildPrioStaleIndices(n, pos) ==
  LET cs     == [n.children EXCEPT ![pos + 1].priority = @ + 1]
      prio   == At(cs, pos).priority
      newPos == newPosOf(cs, pos, prio)
  IN  [n   |-> [n EXCEPT !.children = MoveTo(cs, pos, newPos)],
       pos |-> newPos]

\* incrementChildPrio that raises the priority and moves nothing.
incrementChildPrioInPlace(n, pos) ==
  [n   |-> [n EXCEPT !.children[pos + 1].priority = @ + 1],
   pos |-> pos]

incrementChildPrio(n, pos) ==
  LET cs     == [n.children EXCEPT ![pos + 1].priority = @ + 1]
      prio   == At(cs, pos).priority
      newPos == newPosOf(cs, pos, prio)
  IN  [n   |-> [n EXCEPT !.children = MoveTo(cs, pos, newPos),
                        !.indices  = IF newPos # pos THEN MoveTo(n.indices, pos, newPos) ELSE @],
       pos |-> newPos]

\* ------------------------------------------------------------------ insertion

IsWild(c) == c = ":" \/ c = "*"

\* findWildcard that never looks for a second wildcard in the token.
findWildcardUnchecked(path) ==
  LET starts == {k \in 0..(Len(path) - 1) : IsWild(At(path, k))}
  IN  IF starts = {} THEN [wildcard |-> <<>>, i |-> -1, valid |-> FALSE]
      ELSE
        LET start  == CHOOSE k \in starts : \A j \in starts : k <= j
            slash  == {k \in (start + 1)..(Len(path) - 1) : At(path, k) = "/"}
            stop   == IF slash = {} THEN Len(path)
                      ELSE CHOOSE k \in slash : \A j \in slash : k <= j
        IN  [wildcard |-> Slice(path, start, stop), i |-> start, valid |-> TRUE]

\* First wildcard of path: the token, its 0-based start (-1 if none) and
\* whether the token holds no second ':' or '*'.
findWildcard(path) ==
  LET starts == {k \in 0..(Len(path) - 1) : IsWild(At(path, k))}
  IN  IF starts = {} THEN [wildcard |-> <<>>, i |-> -1, valid |-> FALSE]
      ELSE
        LET start  == CHOOSE k \in starts : \A j \in starts : k <= j
            slash  == {k \in (start + 1)..(Len(path) - 1) : At(path, k) = "/"}
            stop   == IF slash = {} THEN Len(path)
                      ELSE CHOOSE k \in slash : \A j \in slash : k <= j
        IN  [wildcard |-> Slice(path, start, stop),
             i        |-> start,
             valid    |-> \A k \in (start + 1)..(stop - 1) : ~IsWild(At(path, k))]

RECURSIVE insertChild(_, _, _, _)
insertChild(n, path, fullPath, handlers) ==
  LET fw       == findWildcard(path)
      wildcard == fw.wildcard
      i        == fw.i
  IN
  IF i < 0 THEN
    Ret([n EXCEPT !.path = path, !.handlers = handlers, !.fullPath = fullPath], "")
  ELSE IF ~fw.valid THEN
    Ret(n, "only one wildcard per path segment is allowed")
  ELSE IF Len(wildcard) < 2 THEN
    Ret(n, "wildcards must be named with a non-empty name")
  ELSE IF wildcard[1] = ":" THEN
    LET n1    == IF i > 0 THEN [n EXCEPT !.path = Slice(path, 0, i)] ELSE n
        path1 == IF i > 0 THEN From(path, i) ELSE path
        child == [newNode EXCEPT !.nType = "param", !.path = wildcard,
                                 !.fullPath = fullPath, !.priority = 1]
    IN  IF Len(wildcard) < Len(path1) THEN
          LET below == insertChild([newNode EXCEPT !.priority = 1, !.fullPath = fullPath],
                                   From(path1, Len(wildcard)), fullPath, handlers)
          IN  Ret([addChild(n1, addChild(child, below.n)) EXCEPT !.wildChild = TRUE],
                  below.panic)
        ELSE
          Ret([addChild(n1, [child EXCEPT !.handlers = handlers]) EXCEPT !.wildChild = TRUE], "")
  ELSE IF i + Len(wildcard) # Len(path) THEN
    Ret(n, "catch-all routes are only allowed at the end of the path")
  ELSE IF Len(n.path) > 0 /\ LastOf(n.path) = "/" THEN
    IF Len(n.children) = 0
      THEN Ret(n, "index out of range")
      ELSE Ret(n, "catch-all conflicts with existing path segment")
  ELSE IF i - 1 < 0 THEN
    Ret(n, "index out of range")
  ELSE IF At(path, i - 1) # "/" THEN
    Ret(n, "no / before catch-all")
  ELSE
    LET leaf  == [newNode EXCEPT !.path = From(path, i - 1), !.nType = "catchAll",
                                 !.handlers = handlers, !.priority = 1,
                                 !.fullPath = fullPath]
        child == [newNode EXCEPT !.wildChild = TRUE, !.nType = "catchAll",
                                 !.fullPath = fullPath, !.priority = 1,
                                 !.children = <<leaf>>]
    IN  Ret([addChild([n EXCEPT !.path = Slice(path, 0, i - 1)], child)
               EXCEPT !.indices = <<"/">>], "")

\* Index (0-based) of the first byte of indices equal to c, -1 if none.
indexOf(indices, c) ==
  LET hits == {k \in 0..(Len(indices) - 1) : At(indices, k) = c}
  IN  IF hits = {} THEN -1 ELSE CHOOSE k \in hits : \A j \in hits : k <= j

\* wildcardFits without the test that the token ends where w's does.
wildcardFitsByPrefix(w, path) ==
  /\ Len(path) >= Len(w.path)
  /\ w.path = Slice(path, 0, Len(w.path))
  /\ w.nType # "catchAll"

\* The existing wildcard child w accepts the rest of the new path.
wildcardFits(w, path) ==
  /\ Len(path) >= Len(w.path)
  /\ w.path = Slice(path, 0, Len(w.path))
  /\ w.nType # "catchAll"
  /\ (Len(w.path) >= Len(path) \/ At(path, Len(w.path)) = "/")

\* A split that leaves the handlers on the upper half as well.
splitNodeKeepingHandlers(n, path, fullPath, parentFullPathIndex, i) ==
  LET child == [path      |-> From(n.path, i),
                wildChild |-> n.wildChild,
                nType     |-> "static",
                indices   |-> n.indices,
                children  |-> n.children,
                handlers  |-> n.handlers,
                priority  |-> n.priority - 1,
                fullPath  |-> n.fullPath]
  IN  [n EXCEPT !.children  = <<child>>,
                !.indices   = <<At(n.path, i)>>,
                !.path      = Slice(path, 0, i),
                !.wildChild = FALSE,
                !.fullPath  = Slice(fullPath, 0, parentFullPathIndex + i)]

\* The split of node n at byte i of its path, for the new route fullPath.
splitNode(n, path, fullPath, parentFullPathIndex, i) ==
  LET child == [path      |-> From(n.path, i),
                wildChild |-> n.wildChild,
                nType     |-> "static",
                indices   |-> n.indices,
                children  |-> n.children,
                handlers  |-> n.handlers,
                priority  |-> n.priority - 1,
                fullPath  |-> n.fullPath]
  IN  [n EXCEPT !.children  = <<child>>,
                !.indices   = <<At(n.path, i)>>,
                !.path      = Slice(path, 0, i),
                !.handlers  = nilHandlers,
                !.wildChild = FALSE,
                !.fullPath  = Slice(fullPath, 0, parentFullPathIndex + i)]

\* addRoute that overwrites the handlers of a route.
alreadyRegisteredIgnored(n) == FALSE

\* The new path ends at node n, which already is a route.
alreadyRegistered(n) == n.handlers # nilHandlers

\* One turn of the walk loop of addRoute at node n; the turns below it are
\* the recursive calls, whose result replaces the child they ran on.
RECURSIVE walkAdd(_, _, _, _, _)
walkAdd(n0, path0, fullPath, parentFullPathIndex, handlers) ==
  LET i == longestCommonPrefix(path0, n0.path)
      n == IF i < Len(n0.path)
             THEN splitNode(n0, path0, fullPath, parentFullPathIndex, i)
             ELSE n0
  IN
  IF i < Len(path0) THEN
    LET path == From(path0, i)
        c    == At(path, 0)
        k    == indexOf(n.indices, c)
    IN
    IF n.nType = "param" /\ c = "/" /\ Len(n.children) = 1 THEN
      LET r == walkAdd([n.children[1] EXCEPT !.priority = @ + 1], path, fullPath,
                       parentFullPathIndex + Len(n.path), handlers)
      IN  Ret([n EXCEPT !.children[1] = r.n], r.panic)
    ELSE IF k >= 0 THEN
      LET ic == incrementChildPrio(n, k)
          r  == walkAdd(At(ic.n.children, ic.pos), path, fullPath,
                        parentFullPathIndex + Len(n.path), handlers)
      IN  Ret([ic.n EXCEPT !.children[ic.pos + 1] = r.n], r.panic)
    ELSE IF c # ":" /\ c # "*" /\ n.nType # "catchAll" THEN
      LET n1 == addChild([n EXCEPT !.indices = Append(@, c)],
                         [newNode EXCEPT !.fullPath = fullPath])
          ic == incrementChildPrio(n1, Len(n1.indices) - 1)
          r  == insertChild(At(ic.n.children, ic.pos), path, fullPath, handlers)
      IN  Ret([ic.n EXCEPT !.children[ic.pos + 1] = r.n], r.panic)
    ELSE IF n.wildChild THEN
      LET w  == [LastOf(n.children) EXCEPT !.priority = @ + 1]
          n1 == [n EXCEPT !.children[Len(n.children)] = w]
      IN  IF wildcardFits(w, path)
            THEN LET r == walkAdd(w, path, fullPath, parentFullPathIndex, handlers)
                 IN  Ret([n EXCEPT !.children[Len(n.children)] = r.n], r.panic)
            ELSE Ret(n1, "conflicts with existing wildcard")
    ELSE
      insertChild(n, path, fullPath, handlers)
  ELSE IF alreadyRegistered(n) THEN
    Ret(n, "handlers are already registered")
  ELSE
    Ret([n EXCEPT !.handlers = handlers, !.fullPath = fullPath], "")

\* node.addRoute on the root n.
addRoute(n0, path, handlers) ==
  LET n == [n0 EXCEPT !.priority = @ + 1]
  IN  IF Len(n.path) = 0 /\ Len(n.children) = 0
        THEN LET r == insertChild(n, path, path, handlers)
             IN  IF r.panic = "" THEN Ret([r.n EXCEPT !.nType = "root"], "") ELSE r
        ELSE walkAdd(n, path, path, 0, handlers)

\* ------------------------------------------------------------------ lookup

\* A nil *Params argument of getValue.
nilParams == -1

\* nodeValue, with the fault the call died of ("" when it returned) and the
\* caller's skippedNodes stack as the call left it.
Value(st, handlers, tsr, fullPath, fault) ==
  [handlers     |-> handlers,
   params       |-> st.ps,
   paramsNil    |-> st.psNil,
   tsr          |-> tsr,
   fullPath     |-> fullPath,
   fault        |-> fault,
   skippedNodes |-> st.sk]

\* A lookup that never rolls back.
rollbackToNothing(sk, path) == 0

\* Index (1-based) of the skipped node the roll-back loop stops at: the
\* topmost one whose path ends with path; 0 when the loop pops them all.
rollbackTo(sk, path) ==
  LET hits == {j \in 1..Len(sk) : HasSuffix(sk[j].path, path)}
  IN  IF hits = {} THEN 0 ELSE CHOOSE j \in hits : \A h \in hits : h <= j

\* A roll-back that keeps the parameters of the abandoned branch.
rolledBackKeepingParams(st, j) ==
  [ps    |-> st.ps,
   psNil |-> st.psNil,
   sk    |-> SubSeq(st.sk, 1, j - 1),
   gpc   |-> st.sk[j].paramsCount]

\* The walk state after rolling back to skipped node j.
rolledBack(st, j) ==
  [ps    |-> IF ~st.psNil THEN Slice(st.ps, 0, st.sk[j].paramsCount) ELSE st.ps,
   psNil |-> st.psNil,
   sk    |-> SubSeq(st.sk, 1, j - 1),
   gpc   |-> st.sk[j].paramsCount]

\* The copy of n pushed on skippedNodes (it has no indices).
skippedNode(n, path, paramsCount) ==
  [path        |-> path,
   node        |-> [path      |-> n.path,
                    indices   |-> <<>>,
                    wildChild |-> n.wildChild,
                    nType     |-> n.nType,
                    priority  |-> n.priority,
                    children  |-> n.children,
                    handlers  |-> n.handlers,
                    fullPath  |-> n.fullPath],
   paramsCount |-> paramsCount]

\* End of the parameter value: the first '/' of path, or its length.
paramEnd(path) ==
  LET slash == {k \in 0..(Len(path) - 1) : At(path, k) = "/"}
  IN  IF slash = {} THEN Len(path) ELSE CHOOSE k \in slash : \A j \in slash : k <= j

Param(key, val) == [Key |-> key, Value |-> val]

\* The walk goes on at node n with path left to match.
Continue(n, path, st) == [n |-> n, path |-> path, st |-> st]

Continues(turn) == "n" \in DOMAIN turn

\* One turn of the walk loop of getValue: the value it returns, or the node,
\* path and walk state the next turn starts with.
walkTurn(n, path0, st, capParams, capSkipped) ==
  LET prefix == n.path
  IN
  IF Len(path0) > Len(prefix) /\ Slice(path0, 0, Len(prefix)) = prefix THEN
    LET path == From(path0, Len(prefix))
        idxc == At(path, 0)
        k    == indexOf(n.indices, idxc)
    IN
    IF k >= 0 THEN
      IF n.wildChild THEN
        IF Len(st.sk) + 1 > capSkipped
          THEN Value(st, nilHandlers, FALSE, <<>>, "slice bounds out of range")
          ELSE Continue(At(n.children, k), path,
                       [st EXCEPT !.sk = Append(@, skippedNode(n, prefix \o path, st.gpc))])
      ELSE Continue(At(n.children, k), path, st)
    ELSE IF ~n.wildChild THEN
      LET j == IF path # <<"/">> THEN rollbackTo(st.sk, path) ELSE 0
      IN  IF j > 0
            THEN Continue(st.sk[j].node, st.sk[j].path, rolledBack(st, j))
            ELSE Value(IF path # <<"/">> THEN [st EXCEPT !.sk = <<>>] ELSE st,
                       nilHandlers, path = <<"/">> /\ n.handlers # nilHandlers, <<>>, "")
    ELSE
      LET w   == LastOf(n.children)
          st1 == [st EXCEPT !.gpc = @ + 1]
      IN
      IF w.nType = "param" THEN
        LET end  == paramEnd(path)
            save == capParams > 0
            st2  == IF save
                      THEN [st1 EXCEPT !.psNil = FALSE,
                                       !.ps = Append(@, Param(From(w.path, 1), Slice(path, 0, end)))]
                      ELSE st1
        IN
        IF save /\ Len(st1.ps) + 1 > capParams THEN
          Value([st1 EXCEPT !.psNil = FALSE], nilHandlers, FALSE, <<>>, "slice bounds out of range")
        ELSE IF end < Len(path) THEN
          IF Len(w.children) > 0
            THEN Continue(w.children[1], From(path, end), st2)
            ELSE Value(st2, nilHandlers, Len(path) = end + 1, <<>>, "")
        ELSE IF w.handlers # nilHandlers THEN
          Value(st2, w.handlers, FALSE, w.fullPath, "")
        ELSE IF Len(w.children) = 1 THEN
          LET c == w.children[1]
          IN  Value(st2, nilHandlers,
                    (c.path = <<"/">> /\ c.handlers # nilHandlers)
                      \/ (c.path = <<>> /\ c.indices = <<"/">>),
                    <<>>, "")
        ELSE Value(st2, nilHandlers, FALSE, <<>>, "")
      ELSE IF w.nType = "catchAll" THEN
        IF capParams # nilParams THEN
          IF Len(st1.ps) + 1 > capParams
            THEN Value([st1 EXCEPT !.psNil = FALSE], nilHandlers, FALSE, <<>>,
                       "slice bounds out of range")
            ELSE Value([st1 EXCEPT !.psNil = FALSE,
                                   !.ps = Append(@, Param(From(w.path, 2), path))],
                       w.handlers, FALSE, w.fullPath, "")
        ELSE Value(st1, w.handlers, FALSE, w.fullPath, "")
      ELSE Value(st1, nilHandlers, FALSE, <<>>, "invalid node type")
  ELSE IF path0 = prefix THEN
    LET path == path0
        j    == IF n.handlers = nilHandlers /\ path # <<"/">>
                  THEN rollbackTo(st.sk, path) ELSE 0
        st1  == IF n.handlers = nilHandlers /\ path # <<"/">>
                  THEN [st EXCEPT !.sk = <<>>] ELSE st
        k    == indexOf(n.indices, "/")
    IN
    IF j > 0 THEN
      Continue(st.sk[j].node, st.sk[j].path, rolledBack(st, j))
    ELSE IF n.handlers # nilHandlers THEN
      Value(st1, n.handlers, FALSE, n.fullPath, "")
    ELSE IF path = <<"/">> /\ n.wildChild /\ n.nType # "root" THEN
      Value(st1, nilHandlers, TRUE, <<>>, "")
    ELSE IF path = <<"/">> /\ n.nType = "static" THEN
      Value(st1, nilHandlers, TRUE, <<>>, "")
    ELSE IF k >= 0 THEN
      LET c == At(n.children, k)
      IN  Value(st1, nilHandlers,
                (Len(c.path) = 1 /\ c.handlers # nilHandlers)
                  \/ (c.nType = "catchAll" /\ c.children[1].handlers # nilHandlers),
                <<>>, "")
    ELSE Value(st1, nilHandlers, FALSE, <<>>, "")
  ELSE
    LET path == path0
        tsr  == \/ path = <<"/">>
                \/ /\ Len(prefix) = Len(path) + 1
                   /\ At(prefix, Len(path)) = "/"
                   /\ path = Slice(prefix, 0, Len(prefix) - 1)
                   /\ n.handlers # nilHandlers
        j    == IF ~tsr /\ path # <<"/">> THEN rollbackTo(st.sk, path) ELSE 0
    IN
    IF j > 0
      THEN Continue(st.sk[j].node, st.sk[j].path, rolledBack(st, j))
      ELSE Value(IF ~tsr /\ path # <<"/">> THEN [st EXCEPT !.sk = <<>>] ELSE st,
                 nilHandlers, tsr, <<>>, "")

\* The walk loop of getValue.
RECURSIVE walkGet(_, _, _, _, _)
walkGet(n, path0, st, capParams, capSkipped) ==
  LET turn == walkTurn(n, path0, st, capParams, capSkipped)
  IN  IF Continues(turn)
        THEN walkGet(turn.n, turn.path, turn.st, capParams, capSkipped)
        ELSE turn

\* node.getValue on root n with the caller's params (length 0, capacity
\* capParams, or nil) and skippedNodes (contents skipped, capacity capSkipped).
\* unescape is false: Engine.UseRawPath is off unless an application sets it.
getValue(n, path, capParams, skipped, capSkipped) ==
  walkGet(n, path, [ps |-> <<>>, psNil |-> TRUE, sk |-> skipped, gpc |-> 0],
          capParams, capSkipped)

\* ------------------------------------------------------------------ engine

\* Routes offered to the router: well-formed ones that share prefixes, clash
\* on wildcards or place a wildcard inside a segment, and malformed ones.
UserId      == <<"/", "u", "/", ":", "i">>
UserNe      == <<"/", "u", "/", "n", "e">>
User        == <<"/", "u">>
UserPost    == <<"/", "u", "/", ":", "i", "/", "p", "/", ":", "j">>
AnyXY       == <<"/", ":", "a", "/", "x", "/", "y">>
UserName    == <<"/", "u", "/", ":", "n">>
UserIn      == <<"/", "u", "/", ":", "i", "n">>
UserAll     == <<"/", "u", "/", "*", "y">>
AnyOne         == <<"/", ":", "a">>
UMid        == <<"/", "u", ":", "b">>
Ux          == <<"/", "u", "x">>
UxMid       == <<"/", "u", "x", ":", "c">>
UxAll       == <<"/", "u", "x", "/", "*", "y">>
NoName      == <<"/", "u", "/", ":">>
TwoWild     == <<"/", "u", "/", ":", "i", ":", "j">>
AllNotLast  == <<"/", "u", "/", "*", "y", "/", "p">>
AllNoSlash  == <<"/", "u", "*", "y">>

RouteList ==
  <<UserId, UserNe, User, UserPost, AnyXY, UserName, UserIn, UserAll, AnyOne, UMid,
    Ux, UxMid, UxAll, NoName, TwoWild, AllNotLast, AllNoSlash>>

Patterns == {RouteList[k] : k \in 1..Len(RouteList)}

\* Request paths looked up.
Paths ==
  {<<"/">>, <<"/", "u">>, <<"/", "u", "/">>, <<"/", "x">>,
   <<"/", "u", "/", "n", "e">>, <<"/", "u", "/", "n">>, <<"/", "u", "/", "n", "e", "x">>,
   <<"/", "u", "/", "x">>, <<"/", "u", "/", "x", "/">>, <<"/", "u", "/", "n", "e", "/">>,
   <<"/", "u", "/", "x", "/", "y">>, <<"/", "u", "/", "x", "/", "p">>,
   <<"/", "u", "/", "x", "/", "p", "/", "y">>,
   <<"/", "u", "x">>, <<"/", "u", "x", "/">>, <<"/", "u", "x", "/", "x">>,
   <<"/", "u", "x", "/", "x", "/", "y">>, <<"/", "u", "x", "y">>, <<"/", "u", "y">>}

\* Successful registrations the model follows.
MaxRoutes == 4

Method == "GET"

\* The chain a route is registered with: one handler, named after the route.
HandlersOf(pattern) == <<pattern>>

\* methodTrees.get
get(ts, method) ==
  LET hits == {k \in 1..Len(ts) : ts[k].method = method}
  IN  IF hits = {} THEN 0 ELSE CHOOSE k \in hits : \A j \in hits : k <= j

nodeValue(v) ==
  [handlers |-> v.handlers, params |-> v.params, paramsNil |-> v.paramsNil,
   tsr |-> v.tsr, fullPath |-> v.fullPath, fault |-> v.fault]

noValue ==
  [handlers |-> nilHandlers, params |-> <<>>, paramsNil |-> TRUE,
   tsr |-> FALSE, fullPath |-> <<>>, fault |-> ""]

RECURSIVE SumOver(_, _)
SumOver(f, S) ==
  IF S = {} THEN 0 ELSE LET x == CHOOSE y \in S : TRUE IN f[x] + SumOver(f, S \ {x})

Registered == {p \in Patterns : accepted[p] > 0}

Init ==
  /\ trees = <<>>
  /\ maxParams = 0
  /\ maxSections = 0
  /\ accepted = [p \in Patterns |-> 0]
  /\ last = "init"
  /\ arg = <<>>
  /\ panicMsg = ""
  /\ value = noValue
  /\ cp = Unused /\ ctx = Unused /\ rg = Unused /\ srv = Unused /\ conc = Unused
  /\ rq = Unused /\ lk = Unused /\ rec = Unused /\ fix = Unused

\* Engine.addRoute(Method, path, HandlersOf(path)).  A panic ends the program.
EngineAddRoute(path) ==
  /\ panicMsg = ""
  /\ last # "getValue"
  /\ SumOver(accepted, Patterns) < MaxRoutes
  /\ LET t    == get(trees, Method)
         root == IF t = 0 THEN [newNode EXCEPT !.fullPath = <<"/">>] ELSE trees[t].root
         ts   == IF t = 0 THEN Append(trees, [method |-> Method, root |-> root]) ELSE trees
         at   == IF t = 0 THEN Len(ts) ELSE t
         r    == IF path[1] # "/"
                   THEN Ret(root, "path must begin with '/'")
                   ELSE addRoute(root, path, HandlersOf(path))
     IN  /\ trees' = IF path[1] # "/" THEN trees ELSE [ts EXCEPT ![at].root = r.n]
         /\ panicMsg' = r.panic
         /\ IF r.panic = ""
              THEN /\ maxParams' = Max2(maxParams, countParams(path))
                   /\ maxSections' = Max2(maxSections, countSections(path))
                   /\ accepted' = [accepted EXCEPT ![path] = @ + 1]
              ELSE UNCHANGED <<maxParams, maxSections, accepted>>
  /\ last' = "addRoute"
  /\ arg' = path
  /\ value' = noValue
  /\ UNCHANGED besideRouter

\* Engine.ServeHTTP up to the lookup of handleHTTPRequest, for a request of
\* Method to rPath: the context comes fresh from allocateContext, is reset,
\* and root.getValue runs on its params and skippedNodes.
Lookup(rPath) ==
  /\ panicMsg = ""
  /\ last # "getValue"
  /\ get(trees, Method) # 0
  /\ value' = nodeValue(getValue(trees[get(trees, Method)].root, rPath,
                                 maxParams, <<>>, maxSections))
  /\ last' = "getValue"
  /\ arg' = rPath
  /\ UNCHANGED <<trees, maxParams, maxSections, accepted, panicMsg, besideRouter>>

\* The end of Engine.ServeHTTP: the request is over and its context goes
\* back to the pool.
Release ==
  /\ last = "getValue"
  /\ last' = "released"
  /\ arg' = <<>>
  /\ value' = noValue
  /\ UNCHANGED <<trees, maxParams, maxSections, accepted, panicMsg, besideRouter>>

Next ==
  \/ \E path \in Patterns : EngineAddRoute(path)
  \/ \E rPath \in Paths : Lookup(rPath)
  \/ Release

Spec == Init /\ [][Next]_vars

\* ------------------------------------------------------------------ properties

Root == trees[get(trees, Method)].root

\* End (0-based) of the segment text that starts s: its first '/', or its length.
SegEnd(s) ==
  LET slash == {k \in 0..(Len(s) - 1) : At(s, k) = "/"}
  IN  IF slash = {} THEN Len(s) ELSE CHOOSE k \in slash : \A j \in slash : k <= j

\* pattern matches path structurally: static text equal, ':name' one
\* non-empty run without '/', '/*name' the rest of the path from its '/'.
RECURSIVE Matches(_, _)
Matches(pattern, path) ==
  IF pattern = <<>> THEN path = <<>>
  ELSE IF pattern[1] = ":" THEN
    /\ SegEnd(path) > 0
    /\ Matches(From(pattern, SegEnd(pattern)), From(path, SegEnd(path)))
  ELSE IF Len(pattern) >= 2 /\ pattern[1] = "/" /\ pattern[2] = "*" THEN
    path # <<>> /\ path[1] = "/"
  ELSE
    /\ path # <<>>
    /\ path[1] = pattern[1]
    /\ Matches(Tail(pattern), Tail(path))

\* The parameters pattern binds on path, left to right, a ':name' taking the
\* text up to the next '/' or the end; <<"no match">> where the static text differs.
RECURSIVE Bindings(_, _)
Bindings(pattern, path) ==
  IF pattern = <<>> THEN (IF path = <<>> THEN <<>> ELSE <<"no match">>)
  ELSE IF pattern[1] = ":" THEN
    <<Param(Slice(pattern, 1, SegEnd(pattern)), Slice(path, 0, SegEnd(path)))>>
      \o Bindings(From(pattern, SegEnd(pattern)), From(path, SegEnd(path)))
  ELSE IF Len(pattern) >= 2 /\ pattern[1] = "/" /\ pattern[2] = "*" THEN
    IF path # <<>> /\ path[1] = "/"
      THEN <<Param(From(pattern, 2), path)>>
      ELSE <<"no match">>
  ELSE IF path # <<>> /\ path[1] = pattern[1]
    THEN Bindings(Tail(pattern), Tail(path))
    ELSE <<"no match">>

IsStatic(pattern) == countParams(pattern) = 0

\* Params as Engine.handleHTTPRequest copies them into the context.
ReturnedParams == IF value.paramsNil THEN <<>> ELSE value.params

Looked == last = "getValue"

Added == last = "addRoute"

\* C1: when some registered pattern structurally matches the request path,
\* getValue returns the handler chain of a registered route that matches it,
\* and never a miss.
C1_MatchIsFound ==
  (Looked /\ value.fault = "" /\ \E p \in Registered : Matches(p, arg))
    => \E p \in Registered : Matches(p, arg) /\ value.handlers = HandlersOf(p)

\* C2: looking up the literal text of a registered pattern without wildcards
\* returns that route's chain, its pattern as fullPath, and no parameters,
\* whatever else was registered.
C2_LiteralIsFound ==
  (Looked /\ arg \in Registered /\ IsStatic(arg))
    => /\ value.handlers = HandlersOf(arg)
       /\ value.fullPath = arg
       /\ ReturnedParams = <<>>

IsStaticCatchAll(pattern) ==
  /\ countParams(pattern) = 1
  /\ Len(pattern) >= 3
  /\ findWildcard(pattern).i >= 1
  /\ At(pattern, findWildcard(pattern).i) = "*"
  /\ At(pattern, findWildcard(pattern).i - 1) = "/"

\* C4: for a registered catch-all P/*name, looking up P/rest returns that
\* route's chain with the single parameter name = "/rest".
C4_CatchAllTakesTheRest ==
  \A p \in Registered :
    (Looked /\ IsStaticCatchAll(p)
       /\ HasPrefix(arg, Slice(p, 0, findWildcard(p).i)))
      => /\ value.handlers = HandlersOf(p)
         /\ ReturnedParams = <<Param(From(p, findWildcard(p).i + 1),
                                      From(arg, findWildcard(p).i - 1))>>

\* A new engine's root after registering the routes of seq in order.
RECURSIVE Build(_)
Build(seq) ==
  IF seq = <<>> THEN Ret([newNode EXCEPT !.fullPath = <<"/">>], "")
  ELSE LET before == Build(SubSeq(seq, 1, Len(seq) - 1))
       IN  IF before.panic # "" THEN before
           ELSE addRoute(before.n, LastOf(seq), HandlersOf(LastOf(seq)))

\* The orders in which the routes of S can be registered.
Orders(S) ==
  {seq \in [1..Cardinality(S) -> S] : \A i, j \in 1..Cardinality(S) : seq[i] = seq[j] => i = j}

\* What a lookup of path on root n gives the request.
Answer(n, path) ==
  LET v == getValue(n, path, maxParams, <<>>, maxSections)
  IN  <<v.handlers, IF v.paramsNil THEN <<>> ELSE v.params, v.fullPath, v.fault>>

Answers(n) == [path \in Paths |-> Answer(n, path)]

\* The routes of S in the order of RouteList.
InListOrder(S) == SelectSeq(RouteList, LAMBDA p : p \in S)

\* C5: registering the same routes in another order that succeeds gives a
\* tree on which every path returns the same chain, parameters and fullPath.
\* Every tree is compared with the one its routes give in the order of
\* RouteList, so any two orders agree; where that order panics, with the
\* trees of all orders.
C5_OrderIsIrrelevant ==
  (Added /\ panicMsg = "")
    => LET here  == Answers(Root)
           inList == Build(InListOrder(Registered))
       IN  IF inList.panic = ""
             THEN inList.n # Root => Answers(inList.n) = here
             ELSE \A seq \in Orders(Registered) :
                    LET other == Build(seq)
                    IN  (other.panic = "" /\ other.n # Root) => Answers(other.n) = here

\* Three routes, static and wildcard, that another order lays out as a
\* different tree.
C5_Witness ==
  /\ Added /\ panicMsg = ""
  /\ Cardinality(Registered) >= 3
  /\ \E p \in Registered : IsStatic(p)
  /\ \E p \in Registered : ~IsStatic(p)
  /\ Build(InListOrder(Registered)).panic = ""
  /\ Build(InListOrder(Registered)).n # Root
  /\ \E path \in Paths : getValue(Root, path, maxParams, <<>>, maxSections).handlers # nilHandlers

\* "/u/" followed by one non-empty segment other than "ne".
IsUserOther(path) ==
  /\ Len(path) > 3
  /\ Slice(path, 0, 3) = <<"/", "u", "/">>
  /\ SegEnd(From(path, 3)) = Len(path) - 3
  /\ path # UserNe

TokenAt(pattern, k) == Slice(pattern, k, k + SegEnd(From(pattern, k)))

\* p and q hold different wildcard tokens at the same position.
WildcardConflict(p, q) ==
  \E k \in 0..(min(Len(p), Len(q)) - 1) :
    /\ IsWild(At(p, k)) /\ IsWild(At(q, k))
    /\ Slice(p, 0, k) = Slice(q, 0, k)
    /\ TokenAt(p, k) # TokenAt(q, k)

\* C7: registering a pattern whose wildcard token differs from the token a
\* registered pattern has at the same position panics with the wildcard
\* conflict.
C7_WildcardConflictPanics ==
  (Added /\ \E q \in Registered : WildcardConflict(arg, q))
    => panicMsg = "conflicts with existing wildcard"

\* ":in" meets the registered ":i".
C7_Witness ==
  /\ Added
  /\ arg = UserIn
  /\ UserId \in Registered
  /\ panicMsg = "conflicts with existing wildcard"

\* C8: no pattern is accepted twice.
C8_NoDuplicate == \A p \in Patterns : accepted[p] <= 1

\* The second registration of a pattern that is a prefix of another route.
C8_Witness ==
  /\ Added
  /\ arg = User
  /\ {User, UserNe} \subseteq Registered
  /\ panicMsg = "handlers are already registered"

\* The faults of a pattern: a wildcard without a name, two wildcard characters
\* in one segment, a catch-all that is not last or not right after a '/'.
Faulty(pattern) ==
  \E k \in 0..(Len(pattern) - 1) :
    /\ IsWild(At(pattern, k))
    /\ LET stop == k + SegEnd(From(pattern, k))
       IN  \/ stop = k + 1
           \/ \E j \in (k + 1)..(stop - 1) : IsWild(At(pattern, j))
           \/ At(pattern, k) = "*" /\ stop # Len(pattern)
           \/ At(pattern, k) = "*" /\ (k = 0 \/ At(pattern, k - 1) # "/")

\* p ends in a catch-all and q runs through the '/' the catch-all starts at.
CatchAllCovers(p, q) ==
  /\ ~Faulty(p)
  /\ \E k \in 1..(Len(p) - 1) : At(p, k) = "*" /\ HasPrefix(q, Slice(p, 0, k))

\* p cannot be registered beside q.
Conflict(p, q) == p = q \/ WildcardConflict(p, q) \/ CatchAllCovers(p, q) \/ CatchAllCovers(q, p)

RECURSIVE ChainsIn(_)
ChainsIn(n) ==
  (IF n.handlers = nilHandlers THEN {} ELSE {n.handlers})
    \cup UNION {ChainsIn(n.children[k]) : k \in 1..Len(n.children)}

\* C9: a faulty pattern panics and leaves none of its handlers in the tree; a
\* pattern without faults that conflicts with no registered route is accepted.
C9_FaultyPatternsPanic ==
  /\ (Added /\ Faulty(arg))
       => /\ panicMsg # ""
          /\ accepted[arg] = 0
          /\ (get(trees, Method) # 0 => HandlersOf(arg) \notin ChainsIn(Root))
  /\ (Added /\ ~Faulty(arg) /\ panicMsg # "")
       => \E q \in Registered : Conflict(arg, q)

\* A catch-all after static text without '/', refused after another route
\* had been registered.
C9_Witness ==
  /\ Added
  /\ arg = AllNoSlash
  /\ Registered # {}
  /\ panicMsg # ""

\* path with its trailing '/' removed, or with one appended.
Toggled(path) ==
  IF LastOf(path) = "/" THEN SubSeq(path, 1, Len(path) - 1) ELSE Append(path, "/")

\* C10: tsr is set only on a miss, and only when a registered route matches
\* the path with its trailing '/' toggled.
C10_TsrOnlyForARoute ==
  (Looked /\ value.tsr /\ arg # <<"/">>)
    => /\ value.handlers = nilHandlers
       /\ \E p \in Registered : Matches(p, Toggled(arg))

\* C11: a path that matches no registered route, while the path with its
\* trailing '/' toggled matches one, gives no chain and tsr = true.
C11_TsrWhenARouteDiffersBySlash ==
  (Looked /\ value.fault = ""
     /\ ~(\E p \in Registered : Matches(p, arg))
     /\ \E p \in Registered : Matches(p, Toggled(arg)))
    => value.handlers = nilHandlers /\ value.tsr

\* iterate: the paths of the routes below root, each rebuilt by concatenating
\* node segments from the root, in the order of the traversal.
RECURSIVE iterateFrom(_, _, _)
RECURSIVE iterate(_, _, _)
iterateFrom(path, routes, children) ==
  IF children = <<>> THEN routes
  ELSE iterateFrom(path, iterate(path, routes, Head(children)), Tail(children))

iterate(path0, routes, root) ==
  LET path == path0 \o root.path
      here == IF Len(root.handlers) > 0 THEN Append(routes, path) ELSE routes
  IN  iterateFrom(path, here, root.children)

\* Engine.Routes, for the one method the engine holds a tree of.
Routes ==
  IF get(trees, Method) = 0 THEN <<>>
  ELSE iterate(<<>>, <<>>, trees[get(trees, Method)].root)

\* C19: Routes() holds one entry per registered pattern and no others, each
\* spelled exactly as it was registered.
C19_RoutesAreTheRegistered ==
  /\ {Routes[k] : k \in 1..Len(Routes)} = Registered
  /\ Len(Routes) = Cardinality(Registered)

\* A route ending in a catch-all and a route whose node a later, shorter
\* route split are both listed.
C19_Witness ==
  /\ {UxAll, UserId, User} \subseteq Registered
  /\ Added /\ arg = User /\ panicMsg = ""
  /\ Len(Routes) >= 3

\* C28: a lookup on a context allocated after the last registration, with
\* room for maxParams parameters and maxSections skipped nodes, ends without
\* a fault.
C28_LookupStaysInCapacity ==
  Looked => value.fault = ""

\* ------------------------------------------------------------------ tree shape

\* n and every node below it.
RECURSIVE NodesOf(_)
NodesOf(n) == {n} \cup UNION {NodesOf(n.children[k]) : k \in 1..Len(n.children)}

IsWildcardNode(n) == n.nType \in {"param", "catchAll"}

\* The children of n that are no wildcard, in the order of n.children.
Indexed(n) == SelectSeq(n.children, LAMBDA child : ~IsWildcardNode(child))

\* C29: after a successful addRoute every node has at most one wildcard
\* child, which is its last child; wildChild is set exactly on the nodes
\* whose last child is a wildcard; and indices holds the first byte of each
\* other child, in the order of children.
C29_WildcardChildIsLast ==
  (get(trees, Method) # 0 /\ panicMsg = "")
    => \A n \in NodesOf(Root) :
         /\ Cardinality({k \in 1..Len(n.children) : IsWildcardNode(n.children[k])}) <= 1
         /\ \A k \in 1..Len(n.children) :
              IsWildcardNode(n.children[k]) => k = Len(n.children)
         /\ n.wildChild <=> (n.children # <<>> /\ IsWildcardNode(LastOf(n.children)))
         /\ Len(n.indices) = Len(Indexed(n))
         /\ \A k \in 1..Len(Indexed(n)) :
              /\ k <= Len(n.indices)
              /\ Indexed(n)[k].path # <<>>
              /\ Indexed(n)[k].path[1] = n.indices[k]

\* C30: after successful addRoute calls the priority of every node is the
\* number of registered routes below it, which is the sum of its children's
\* priorities plus one if it has handlers; the indexed children are in
\* non-increasing order of priority; and each byte of indices is the first
\* byte of the child at its position.
C30_PriorityCountsRoutes ==
  (get(trees, Method) # 0 /\ panicMsg = "")
    => \A n \in NodesOf(Root) :
         /\ n.priority = Cardinality({p \in Registered : HandlersOf(p) \in ChainsIn(n)})
         /\ n.priority = SumOver([k \in 1..Len(n.children) |-> n.children[k].priority],
                                 1..Len(n.children))
                           + (IF n.handlers # nilHandlers THEN 1 ELSE 0)
         /\ \A j, k \in 1..Len(n.indices) :
              (j < k /\ k <= Len(n.children))
                => n.children[j].priority >= n.children[k].priority
         /\ \A k \in 1..Len(n.indices) :
              (k <= Len(n.children) /\ n.children[k].path # <<>>)
                => n.children[k].path[1] = n.indices[k]

\* "/u/:i" was added after "/ux" and "/u/ne": under "/u" the child "/" now
\* holds two routes and stands before the child "x".
C30_Witness ==
  /\ Added /\ panicMsg = ""
  /\ arg = UserId
  /\ Registered = {Ux, UserNe, UserId}
  /\ Root.indices = <<"/", "x">>
  /\ Root.children[1].priority = 2
  /\ Root.children[2].priority = 1

\* ------------------------------------------------------------------ cleanPath

\* A byte of a buffer that make() zeroed and nothing wrote.
NUL == "\\0"

\* make([]byte, k); the inputs stay below stackBufSize, where the buffer is
\* the zeroed stack buffer cut to the same length.
makeBytes(k) == [j \in 1..k |-> NUL]

\* A bufApp that creates the buffer at the first byte written, whether or not
\* it differs from s.
bufAppEager(st, s, c) ==
  IF Len(st.buf) = 0 THEN
    IF st.w >= Len(s) THEN [st EXCEPT !.fault = "index out of range"]
    ELSE LET b == [j \in 1..Len(s) |-> IF j <= st.w THEN s[j] ELSE NUL]
         IN  [st EXCEPT !.buf = [b EXCEPT ![st.w + 1] = c]]
  ELSE IF st.w >= Len(st.buf) THEN [st EXCEPT !.fault = "index out of range"]
  ELSE [st EXCEPT !.buf[st.w + 1] = c]

\* bufApp(&buf, s, w, c) on the loop state st of cleanPath: the buffer is
\* created, as a copy of s[:w], at the first byte that differs from s.
bufApp(st, s, c) ==
  IF Len(st.buf) = 0 THEN
    IF st.w >= Len(s) THEN [st EXCEPT !.fault = "index out of range"]
    ELSE IF At(s, st.w) = c THEN st
    ELSE LET b == [j \in 1..Len(s) |-> IF j <= st.w THEN s[j] ELSE NUL]
         IN  [st EXCEPT !.buf = [b EXCEPT ![st.w + 1] = c]]
  ELSE IF st.w >= Len(st.buf) THEN [st EXCEPT !.fault = "index out of range"]
  ELSE [st EXCEPT !.buf[st.w + 1] = c]

\* A ".." that gives up one byte of the output instead of one segment.
backToSlashOneByte(src, w) == w

\* for w > 1 && src[w] != '/' { w-- }
RECURSIVE backToSlash(_, _)
backToSlash(src, w) ==
  IF w > 1 /\ At(src, w) # "/" THEN backToSlash(src, w - 1) ELSE w

\* for r < n && p[r] != '/' { bufApp(&buf, p, w, p[r]); w++; r++ }
RECURSIVE copyElement(_, _)
copyElement(p, st) ==
  IF st.fault = "" /\ st.r < Len(p) /\ At(p, st.r) # "/"
    THEN LET a == bufApp(st, p, At(p, st.r))
         IN  copyElement(p, [a EXCEPT !.w = @ + 1, !.r = @ + 1])
    ELSE st

\* The loop of cleanPath over the bytes of p.
RECURSIVE cleanLoop(_, _)
cleanLoop(p, st) ==
  LET n == Len(p)
      r == st.r
  IN
  IF st.fault # "" \/ r >= n THEN st
  ELSE IF At(p, r) = "/" THEN cleanLoop(p, [st EXCEPT !.r = r + 1])
  ELSE IF At(p, r) = "." /\ r + 1 = n THEN
    cleanLoop(p, [st EXCEPT !.trailing = TRUE, !.r = r + 1])
  ELSE IF At(p, r) = "." /\ At(p, r + 1) = "/" THEN cleanLoop(p, [st EXCEPT !.r = r + 2])
  ELSE IF At(p, r) = "." /\ At(p, r + 1) = "." /\ (r + 2 = n \/ At(p, r + 2) = "/") THEN
    LET w == IF st.w > 1
               THEN backToSlash(IF Len(st.buf) = 0 THEN p ELSE st.buf, st.w - 1)
               ELSE st.w
    IN  cleanLoop(p, [st EXCEPT !.r = r + 3, !.w = w])
  ELSE
    LET slashed == IF st.w > 1
                     THEN LET a == bufApp(st, p, "/") IN [a EXCEPT !.w = @ + 1]
                     ELSE st
    IN  cleanLoop(p, copyElement(p, slashed))

\* cleanPath(p): the cleaned path, the runtime fault it died of, if any, and
\* whether the path returned is a new string made from the buffer (or the
\* constant "/") instead of a slice p[:w] of the argument.
cleanPath(p) ==
  IF p = <<>> THEN [path |-> <<"/">>, fault |-> "", buffered |-> TRUE]
  ELSE
    LET n     == Len(p)
        first == IF p[1] # "/"
                   THEN [r |-> 0, w |-> 1,
                         buf |-> [makeBytes(n + 1) EXCEPT ![1] = "/"],
                         trailing |-> n > 1 /\ At(p, n - 1) = "/", fault |-> ""]
                   ELSE [r |-> 1, w |-> 1, buf |-> <<>>,
                         trailing |-> n > 1 /\ At(p, n - 1) = "/", fault |-> ""]
        looped == cleanLoop(p, first)
        st    == IF looped.fault = "" /\ looped.trailing /\ looped.w > 1
                   THEN LET a == bufApp(looped, p, "/") IN [a EXCEPT !.w = @ + 1]
                   ELSE looped
    IN  IF st.fault # "" THEN [path |-> <<>>, fault |-> st.fault, buffered |-> FALSE]
        ELSE IF Len(st.buf) = 0
          THEN [path |-> Slice(p, 0, st.w), fault |-> "", buffered |-> FALSE]
        ELSE [path |-> Slice(st.buf, 0, st.w), fault |-> "", buffered |-> TRUE]

\* Bytes the inputs of cleanPath are made of, and their greatest length.
PathBytes == {"/", ".", "a"}

MaxPathLen == 6

\* A longer input with two names, "//" and "..".
LongInput == <<"/", "a", "/", "/", "b", "/", ".", ".", "/", "c">>

CleanInputs == UNION {[1..k -> PathBytes] : k \in 0..MaxPathLen} \cup {LongInput}

\* The router before any route is registered.
RouterIdle ==
  /\ trees = <<>> /\ maxParams = 0 /\ maxSections = 0
  /\ accepted = [p \in Patterns |-> 0]
  /\ last = "init" /\ arg = <<>> /\ panicMsg = "" /\ value = noValue

InitClean ==
  /\ cp \in {[p |-> p, done |-> FALSE, out |-> <<>>, fault |-> "", buffered |-> FALSE,
              again |-> [done |-> FALSE, out |-> <<>>, fault |-> "", buffered |-> FALSE]] :
             p \in CleanInputs}
  /\ RouterIdle
  /\ ctx = Unused /\ rg = Unused /\ srv = Unused /\ conc = Unused
  /\ rq = Unused /\ lk = Unused /\ rec = Unused /\ fix = Unused

\* Engine.handleHTTPRequest with RemoveExtraSlash: rPath = cleanPath(rPath).
CleanPath ==
  /\ ~cp.done
  /\ cp' = [cp EXCEPT !.done = TRUE,
                      !.out = cleanPath(cp.p).path,
                      !.fault = cleanPath(cp.p).fault,
                      !.buffered = cleanPath(cp.p).buffered]
  /\ UNCHANGED besideClean

\* cleanPath on the path that cleanPath returned.
CleanAgain ==
  /\ cp.done /\ cp.fault = "" /\ ~cp.again.done
  /\ cp' = [cp EXCEPT !.again = [done     |-> TRUE,
                                 out      |-> cleanPath(cp.out).path,
                                 fault    |-> cleanPath(cp.out).fault,
                                 buffered |-> cleanPath(cp.out).buffered]]
  /\ UNCHANGED besideClean

NextClean ==
  \/ CleanPath
  \/ CleanAgain

SpecClean == InitClean /\ [][NextClean]_vars

\* The '/'-delimited segments of s, empty ones included.
RECURSIVE Segments(_)
Segments(s) ==
  IF s = <<>> THEN <<<<>>>>
  ELSE LET e == SegEnd(s)
       IN  IF e = Len(s) THEN <<s>> ELSE <<Slice(s, 0, e)>> \o Segments(From(s, e + 1))

Dot == <<".">>

DotDot == <<".", ".">>

\* The segments left after resolving those of segs onto the stack kept: ""
\* and "." vanish, ".." drops the last kept segment, if there is one.
RECURSIVE Resolve(_, _)
Resolve(segs, kept) ==
  IF segs = <<>> THEN kept
  ELSE LET g == Head(segs)
       IN  IF g = <<>> \/ g = Dot THEN Resolve(Tail(segs), kept)
           ELSE IF g = DotDot
             THEN Resolve(Tail(segs), IF kept = <<>> THEN kept ELSE SubSeq(kept, 1, Len(kept) - 1))
           ELSE Resolve(Tail(segs), Append(kept, g))

RECURSIVE Joined(_)
Joined(segs) ==
  IF segs = <<>> THEN <<>> ELSE <<"/">> \o Head(segs) \o Joined(Tail(segs))

\* The canonical form of p: its resolved segments, each after a '/', and a
\* closing '/' when p ends in '/' or in a lone "." and a segment is left.
Canonical(p) ==
  LET kept  == Resolve(Segments(p), <<>>)
      slash == Len(p) > 1 /\ (LastOf(p) = "/" \/ LastOf(Segments(p)) = Dot)
  IN  IF kept = <<>> THEN <<"/">>
      ELSE Joined(kept) \o (IF slash THEN <<"/">> ELSE <<>>)

\* C20: cleanPath returns, without fault, a path that starts with '/', holds
\* no "//" and no segment "." or "..": the resolved segments of the input,
\* ".." dropping the segment before it and nothing at the root, with a
\* closing '/' where the input ends in '/' or a lone "."; "" gives "/".
C20_CleanPathIsCanonical ==
  cp.done
    => /\ cp.fault = ""
       /\ cp.out # <<>> /\ cp.out[1] = "/"
       /\ \A k \in 1..(Len(cp.out) - 1) : ~(cp.out[k] = "/" /\ cp.out[k + 1] = "/")
       /\ \A k \in 1..Len(Segments(cp.out)) : Segments(cp.out)[k] \notin {Dot, DotDot}
       /\ cp.out = Canonical(cp.p)
       /\ (cp.p = <<>> => cp.out = <<"/">>)

\* "../a/." : a ".." at the root, a path that needs the buffer, and a closing
\* lone ".".
C20_Witness ==
  /\ cp.done
  /\ cp.p = <<".", ".", "/", "a", "/", ".">>
  /\ cp.out = <<"/", "a", "/">>

\* C21: cleaning a cleaned path gives it back as it is, as a slice of the
\* argument over its whole length and with no buffer made; so does cleaning
\* any path that is its own canonical form; and "/a//b/../c" cleans to
\* "/a/c".
C21_CleanPathIsIdempotent ==
  /\ cp.again.done
       => /\ cp.again.fault = ""
          /\ cp.again.out = cp.out
          /\ ~cp.again.buffered
  /\ (cp.done /\ Canonical(cp.p) = cp.p) => (cp.out = cp.p /\ ~cp.buffered)
  /\ (cp.done /\ cp.p = LongInput) => cp.out = <<"/", "a", "/", "c">>

\* "/a//b/../c" was cleaned, through the buffer, and the result cleaned again.
C21_Witness ==
  /\ cp.p = LongInput
  /\ cp.buffered
  /\ cp.again.done
  /\ cp.again.out = <<"/", "a", "/", "c">>

\* ------------------------------------------------------------------ handler chain

abortIndex == 63

\* A value of Context.index, an int8: arithmetic wraps.
Int8(x) == ((x + 128) % 256) - 128

\* What a handler does with the context: the calls it makes, in order.
ThenNext == <<"Next">>

Scripts ==
  {<<>>, ThenNext, <<"Abort">>, <<"Abort", "Next">>, <<"Next", "Abort">>, <<"Next", "Next">>}

\* Lengths of the chains whose handlers are any of Scripts.
MaxChain == 3

\* Length of a chain of handlers that wrap the rest, each calling Next once.
LongChain == 32

\* Calls of Next a single handler makes after Abort.
ManyNext == 65

Chains ==
  UNION {[1..k -> Scripts] : k \in 1..MaxChain}
    \cup {[k \in 1..LongChain |-> ThenNext], [k \in 1..(abortIndex - 1) |-> ThenNext]}
    \cup {<<<<"Abort">> \o [k \in 1..ManyNext |-> "Next"]>>}

NextFrame == [kind |-> "Next", h |-> -1, pc |-> 0]

HandlerFrame(h) == [kind |-> "handler", h |-> h, pc |-> 0]

Top == ctx.stack[Len(ctx.stack)]

Popped == SubSeq(ctx.stack, 1, Len(ctx.stack) - 1)

\* c.index++ on entry of Next
indexOnNext(index) == Int8(index + 1)

\* The c.index++ that closes a turn of the loop of Next, with no handler run
\* again.
indexAfterHandlerStuck(index) == index

\* c.index++ after handlers[c.index](c) returned
indexAfterHandler(index) == Int8(index + 1)

\* A reset context that was given one of Chains.
InitChain ==
  /\ ctx \in {[handlers |-> chain, index |-> -1, stack |-> <<>>, phase |-> "reset",
               started |-> <<>>, finished |-> <<>>, aborted |-> FALSE,
               startedAtAbort |-> 0, panic |-> ""] : chain \in Chains}
  /\ RouterIdle
  /\ cp = Unused /\ rg = Unused /\ srv = Unused /\ conc = Unused
  /\ rq = Unused /\ lk = Unused /\ rec = Unused /\ fix = Unused

\* Engine.handleHTTPRequest on a hit: c.handlers is the route's chain and
\* c.Next() is called.
ServeChain ==
  /\ ctx.phase = "reset"
  /\ ctx' = [ctx EXCEPT !.phase = "running",
                        !.index = indexOnNext(ctx.index),
                        !.stack = <<NextFrame>>]
  /\ UNCHANGED besideChain

\* One test of the loop of Next: the handler at c.index is called, or the
\* loop ends and Next returns to the handler that called it.
NextTurn ==
  /\ ctx.phase = "running" /\ ctx.panic = ""
  /\ Top.kind = "Next"
  /\ IF ctx.index < Int8(Len(ctx.handlers))
       THEN IF ctx.index < 0
              THEN ctx' = [ctx EXCEPT !.panic = "index out of range"]
              ELSE ctx' = [ctx EXCEPT !.stack = Append(@, HandlerFrame(ctx.index)),
                                      !.started = Append(@, ctx.index)]
       ELSE IF Len(ctx.stack) = 1
              THEN ctx' = [ctx EXCEPT !.stack = <<>>, !.phase = "done"]
              ELSE ctx' = [ctx EXCEPT !.stack =
                             [Popped EXCEPT ![Len(Popped)].pc = @ + 1]]
  /\ UNCHANGED besideChain

\* The running handler reaches a call of c.Next().
HandlerCallsNext ==
  /\ ctx.phase = "running" /\ ctx.panic = ""
  /\ Top.kind = "handler"
  /\ Top.pc < Len(ctx.handlers[Top.h + 1])
  /\ ctx.handlers[Top.h + 1][Top.pc + 1] = "Next"
  /\ ctx' = [ctx EXCEPT !.index = indexOnNext(ctx.index),
                        !.stack = Append(@, NextFrame)]
  /\ UNCHANGED besideChain

\* The running handler reaches a call of c.Abort().
HandlerCallsAbort ==
  /\ ctx.phase = "running" /\ ctx.panic = ""
  /\ Top.kind = "handler"
  /\ Top.pc < Len(ctx.handlers[Top.h + 1])
  /\ ctx.handlers[Top.h + 1][Top.pc + 1] = "Abort"
  /\ ctx' = [ctx EXCEPT !.index = abortIndex,
                        !.aborted = TRUE,
                        !.startedAtAbort = IF ctx.aborted THEN @ ELSE Len(ctx.started),
                        !.stack[Len(ctx.stack)].pc = @ + 1]
  /\ UNCHANGED besideChain

\* The running handler returns into the loop of the Next that called it.
HandlerReturns ==
  /\ ctx.phase = "running" /\ ctx.panic = ""
  /\ Top.kind = "handler"
  /\ Top.pc = Len(ctx.handlers[Top.h + 1])
  /\ ctx' = [ctx EXCEPT !.index = indexAfterHandler(ctx.index),
                        !.finished = Append(@, Top.h),
                        !.stack = Popped]
  /\ UNCHANGED besideChain

NextChain ==
  \/ ServeChain
  \/ NextTurn
  \/ HandlerCallsNext
  \/ HandlerCallsAbort
  \/ HandlerReturns

SpecChain == InitChain /\ [][NextChain]_vars

\* Context.IsAborted
IsAborted == ctx.index >= abortIndex

\* A handler calls Next at most once and never Abort.
Plain(script) == script \in {<<>>, ThenNext}

InSeq(s, x) == \E k \in 1..Len(s) : s[k] = x

\* C12: once Abort was called no further handler of the chain is started,
\* whatever calls of Next follow, and the handlers that had started run to
\* their end: nothing panics, and a finished request has finished them all.
C12_AbortStopsTheChain ==
  ctx.aborted
    => /\ Len(ctx.started) = ctx.startedAtAbort
       /\ ctx.panic = ""
       /\ (ctx.phase = "done" => Len(ctx.finished) = Len(ctx.started))

\* C13: in a chain whose handlers neither abort nor call Next twice, the
\* handlers are started once each in chain order, all of them by the end of
\* the request, and a Next a handler called returns after every later
\* handler has finished.
C13_EveryHandlerOnceInOrder ==
  (\A k \in 1..Len(ctx.handlers) : Plain(ctx.handlers[k]))
    => /\ ctx.panic = ""
       /\ ctx.started = [k \in 1..Len(ctx.started) |-> k - 1]
       /\ (ctx.phase = "done" =>
             /\ Len(ctx.started) = Len(ctx.handlers)
             /\ Len(ctx.finished) = Len(ctx.handlers))
       /\ \A f \in 1..Len(ctx.stack) :
            (ctx.stack[f].kind = "handler" /\ ctx.stack[f].pc = 1)
              => \A j \in (ctx.stack[f].h + 1)..(Len(ctx.handlers) - 1) :
                   InSeq(ctx.finished, j)

\* The first of three handlers is back from its Next: the second, which did
\* not call Next, and the third are over.
C13_Witness ==
  /\ ctx.handlers = <<ThenNext, <<>>, ThenNext>>
  /\ Len(ctx.stack) = 2
  /\ Top.kind = "handler" /\ Top.h = 0 /\ Top.pc = 1
  /\ ctx.finished = <<1, 2>>

\* C14: IsAborted() is true exactly when Abort was called since the reset.
C14_AbortedIffAbortCalled == IsAborted <=> ctx.aborted

\* ------------------------------------------------------------------ router groups

\* A HandlersChain is a Go slice: a window [0, len) on a backing array of cap
\* elements.  Arrays live in rg.heap; array 0 is that of the nil slice.
nilSlice == [arr |-> 0, len |-> 0, cap |-> 0]

\* A slot of a backing array that nothing wrote.
NoHandler == "nil"

\* The elements of slice sl.
Elems(heap, sl) == IF sl.len = 0 THEN <<>> ELSE SubSeq(heap[sl.arr], 1, sl.len)

\* make(HandlersChain, k) followed by copies of the sequence elems into it.
makeChain(heap, elems) ==
  [heap  |-> Append(heap, elems),
   slice |-> [arr |-> Len(heap) + 1, len |-> Len(elems), cap |-> Len(elems)]]

\* Elements the runtime may add to the capacity a growing append asks for.
Spare == {0, 1}

\* append(sl, elems...): in place while the capacity lasts, else into a new
\* array with room for spare more elements.
appendChain(heap, sl, elems, spare) ==
  LET need == sl.len + Len(elems)
  IN  IF need <= sl.cap
        THEN [heap  |-> [heap EXCEPT ![sl.arr] =
                           [j \in 1..Len(@) |->
                              IF j > sl.len /\ j <= need THEN elems[j - sl.len] ELSE @[j]]],
              slice |-> [sl EXCEPT !.len = need]]
        ELSE [heap  |-> Append(heap, Elems(heap, sl) \o elems
                                       \o [j \in 1..spare |-> NoHandler]),
              slice |-> [arr |-> Len(heap) + 1, len |-> need, cap |-> need + spare]]

\* combineHandlers that reuses the group's backing array: append(group.Handlers, handlers...).
combineHandlersByAppend(heap, groupHandlers, handlers) ==
  LET finalSize == groupHandlers.len + Len(handlers)
      a         == appendChain(heap, groupHandlers, handlers, 0)
  IN  IF ~(finalSize < abortIndex)
        THEN [heap |-> heap, slice |-> nilSlice, panic |-> "too many handlers"]
        ELSE [heap |-> a.heap, slice |-> a.slice, panic |-> ""]

\* combineHandlers without the guard on the size of the chain.
combineHandlersUnchecked(heap, groupHandlers, handlers) ==
  LET merged == makeChain(heap, Elems(heap, groupHandlers) \o handlers)
  IN  [heap |-> merged.heap, slice |-> merged.slice, panic |-> ""]

\* RouterGroup.combineHandlers on a group whose Handlers is groupHandlers.
combineHandlers(heap, groupHandlers, handlers) ==
  LET finalSize == groupHandlers.len + Len(handlers)
      merged    == makeChain(heap, Elems(heap, groupHandlers) \o handlers)
  IN  IF ~(finalSize < abortIndex)
        THEN [heap |-> heap, slice |-> nilSlice, panic |-> "too many handlers"]
        ELSE [heap |-> merged.heap, slice |-> merged.slice, panic |-> ""]

\* Calls of Use, Group, Handle, NoRoute and NoMethod the model follows, and
\* groups it creates beside the engine's own.
MaxOps == 4

MaxGroups == 2

\* Numbers of handlers passed to one call.
UseSizes == {1, 31}

GroupSizes == {0, 1}

HandleSizes == {1, 31}

NoRouteSizes == {1, 32}

\* The k handlers passed to the call number op: each is a function of its own.
Fresh(op, k) == [j \in 1..k |-> <<op, j>>]

\* The engine after New(): its own group is group 1, without middleware.
InitGroups ==
  /\ rg = [heap        |-> <<>>,
           groups      |-> <<[Handlers |-> nilSlice, root |-> TRUE, logical |-> <<>>]>>,
           routes      |-> <<>>,
           noRoute     |-> nilSlice,
           noMethod    |-> nilSlice,
           allNoRoute  |-> nilSlice,
           allNoMethod |-> nilSlice,
           ops         |-> 0,
           lastOp      |-> [op |-> "New", g |-> 0, size |-> 0],
           panic       |-> ""]
  /\ RouterIdle
  /\ cp = Unused /\ ctx = Unused /\ srv = Unused /\ conc = Unused
  /\ rq = Unused /\ lk = Unused /\ rec = Unused /\ fix = Unused

CanCall == rg.panic = "" /\ rg.ops < MaxOps

\* RouterGroup.Use on a group other than the engine's; Engine.Use, which
\* rebuilds the 404 and 405 chains, on the engine's.
Use(g, k, spare) ==
  /\ CanCall
  /\ LET mw   == Fresh(rg.ops + 1, k)
         a    == appendChain(rg.heap, rg.groups[g].Handlers, mw, spare)
         r404 == combineHandlers(a.heap, a.slice, Elems(a.heap, rg.noRoute))
         r405 == combineHandlers(r404.heap, a.slice, Elems(r404.heap, rg.noMethod))
         used == [rg EXCEPT !.heap = a.heap,
                            !.groups[g].Handlers = a.slice,
                            !.groups[g].logical = @ \o mw,
                            !.ops = @ + 1,
                            !.lastOp = [op |-> "Use", g |-> g, size |-> a.slice.len]]
     IN  IF ~rg.groups[g].root THEN rg' = used
         ELSE IF r404.panic # "" THEN rg' = [used EXCEPT !.panic = r404.panic]
         ELSE IF r405.panic # ""
           THEN rg' = [used EXCEPT !.heap = r404.heap, !.allNoRoute = r404.slice,
                                   !.panic = r405.panic]
         ELSE rg' = [used EXCEPT !.heap = r405.heap, !.allNoRoute = r404.slice,
                                 !.allNoMethod = r405.slice]
  /\ UNCHANGED besideGroups

\* RouterGroup.Group
Group(g, k) ==
  /\ CanCall
  /\ Len(rg.groups) < 1 + MaxGroups
  /\ LET handlers == Fresh(rg.ops + 1, k)
         r        == combineHandlers(rg.heap, rg.groups[g].Handlers, handlers)
         called   == [rg EXCEPT !.ops = @ + 1,
                                !.lastOp = [op |-> "Group", g |-> g,
                                            size |-> rg.groups[g].Handlers.len + k]]
     IN  IF r.panic # "" THEN rg' = [called EXCEPT !.panic = r.panic]
         ELSE rg' = [called EXCEPT !.heap = r.heap,
                                   !.groups = Append(@, [Handlers |-> r.slice, root |-> FALSE,
                                                         logical |-> rg.groups[g].logical \o handlers])]
  /\ UNCHANGED besideGroups

\* RouterGroup.handle for a path no other route has: the combined chain goes
\* to Engine.addRoute, which stores it in the tree.
Handle(g, k) ==
  /\ CanCall
  /\ LET handlers == Fresh(rg.ops + 1, k)
         r        == combineHandlers(rg.heap, rg.groups[g].Handlers, handlers)
         called   == [rg EXCEPT !.ops = @ + 1,
                                !.lastOp = [op |-> "Handle", g |-> g,
                                            size |-> rg.groups[g].Handlers.len + k]]
     IN  IF r.panic # "" THEN rg' = [called EXCEPT !.panic = r.panic]
         ELSE rg' = [called EXCEPT !.heap = r.heap,
                                   !.routes = Append(@, [chain |-> r.slice,
                                                         expected |-> rg.groups[g].logical \o handlers])]
  /\ UNCHANGED besideGroups

\* Engine.NoRoute
NoRoute(k) ==
  /\ CanCall
  /\ LET arg0 == makeChain(rg.heap, Fresh(rg.ops + 1, k))
         r    == combineHandlers(arg0.heap, rg.groups[1].Handlers, Elems(arg0.heap, arg0.slice))
         set  == [rg EXCEPT !.heap = arg0.heap, !.noRoute = arg0.slice, !.ops = @ + 1,
                            !.lastOp = [op |-> "NoRoute", g |-> 1,
                                        size |-> rg.groups[1].Handlers.len + k]]
     IN  IF r.panic # "" THEN rg' = [set EXCEPT !.panic = r.panic]
         ELSE rg' = [set EXCEPT !.heap = r.heap, !.allNoRoute = r.slice]
  /\ UNCHANGED besideGroups

\* Engine.NoMethod
NoMethod(k) ==
  /\ CanCall
  /\ LET arg0 == makeChain(rg.heap, Fresh(rg.ops + 1, k))
         r    == combineHandlers(arg0.heap, rg.groups[1].Handlers, Elems(arg0.heap, arg0.slice))
         set  == [rg EXCEPT !.heap = arg0.heap, !.noMethod = arg0.slice, !.ops = @ + 1,
                            !.lastOp = [op |-> "NoMethod", g |-> 1,
                                        size |-> rg.groups[1].Handlers.len + k]]
     IN  IF r.panic # "" THEN rg' = [set EXCEPT !.panic = r.panic]
         ELSE rg' = [set EXCEPT !.heap = r.heap, !.allNoMethod = r.slice]
  /\ UNCHANGED besideGroups

NextGroups ==
  \/ \E g \in 1..Len(rg.groups), k \in UseSizes, spare \in Spare : Use(g, k, spare)
  \/ \E g \in 1..Len(rg.groups), k \in GroupSizes : Group(g, k)
  \/ \E g \in 1..Len(rg.groups), k \in HandleSizes : Handle(g, k)
  \/ \E k \in NoRouteSizes : NoRoute(k)
  \/ \E k \in NoRouteSizes : NoMethod(k)

SpecGroups == InitGroups /\ [][NextGroups]_vars

\* C15: every chain a context can be given, of a route, for 404 or for 405,
\* is shorter than abortIndex; a call that composes a chain of abortIndex or
\* more handlers panics with "too many handlers" and adds no route or group.
C15_ChainsBelowAbortIndex ==
  /\ \A r \in 1..Len(rg.routes) : rg.routes[r].chain.len < abortIndex
  /\ rg.allNoRoute.len < abortIndex
  /\ rg.allNoMethod.len < abortIndex
  /\ (rg.panic = "" => rg.noRoute.len < abortIndex)
  /\ (rg.lastOp.op \in {"Handle", "Group", "NoRoute", "NoMethod"}
        /\ rg.lastOp.size >= abortIndex)
       => rg.panic = "too many handlers"
  /\ (rg.lastOp.op = "Handle" /\ rg.panic = "")
       => rg.routes[Len(rg.routes)].chain.len = rg.lastOp.size

\* A route of 62 handlers is stored; the next one, of 63, is refused.
C15_Witness ==
  /\ rg.lastOp.op = "Handle" /\ rg.lastOp.size = abortIndex
  /\ rg.panic = "too many handlers"
  /\ \E r \in 1..Len(rg.routes) : rg.routes[r].chain.len = abortIndex - 1

\* C16: the chain stored for a route stays what it was at registration, the
\* middleware of its group (parents' first) followed by its own handlers,
\* and the middleware of a group stays what the group was created with and
\* was given by its own Use, whatever Use is called later and wherever.
C16_StoredChainsAreFrozen ==
  /\ \A r \in 1..Len(rg.routes) : Elems(rg.heap, rg.routes[r].chain) = rg.routes[r].expected
  /\ \A g \in 1..Len(rg.groups) : Elems(rg.heap, rg.groups[g].Handlers) = rg.groups[g].logical

\* Two routes registered on a group whose Handlers has spare capacity, and a
\* Use on the group after them.
C16_Witness ==
  /\ rg.panic = ""
  /\ Len(rg.routes) = 2
  /\ rg.lastOp.op = "Use"
  /\ \E g \in 1..Len(rg.groups) :
       /\ rg.groups[g].Handlers.len >= 2
       /\ \A r \in 1..2 : Len(rg.routes[r].expected) = 2
                            /\ rg.routes[r].expected[1] = rg.groups[g].logical[1]

\* ------------------------------------------------------------------ requests

ServeMethods == {"GET", "POST"}

ServePatterns == {UserId, AnyXY, Ux, UserNe, AnyOne, User}

ServePaths ==
  {<<"/">>, <<"/", "u">>, <<"/", "u", "/">>, <<"/", "u", "x">>, <<"/", "u", "/", "n", "e">>,
   <<"/", "u", "/", "x">>, <<"/", "u", "/", "x", "/">>, <<"/", "u", "/", "x", "/", "y">>,
   <<"/", "x">>}

\* Successful registrations, over all methods, that the model follows.
MaxServed == 3

\* The loop of Engine.handleHTTPRequest over the trees of the other methods,
\* from tree k on, with the context's skippedNodes as the lookups before left
\* them: 405 at the first tree that returns handlers, else 404.
RECURSIVE notAllowed(_, _, _, _, _, _)
notAllowed(ts, k, httpMethod, rPath, skipped, capSkipped) ==
  IF k > Len(ts) THEN "404"
  ELSE IF ts[k].method = httpMethod
    THEN notAllowed(ts, k + 1, httpMethod, rPath, skipped, capSkipped)
  ELSE LET v == getValue(ts[k].root, rPath, nilParams, skipped, capSkipped)
       IN  IF v.fault # "" THEN "panic"
           ELSE IF v.handlers # nilHandlers THEN "405"
           ELSE notAllowed(ts, k + 1, httpMethod, rPath, v.skippedNodes, capSkipped)

\* Engine.handleHTTPRequest for a context that allocateContext made with the
\* capacities capParams and capSkipped and reset emptied.  RedirectFixedPath,
\* UseRawPath and RemoveExtraSlash are off, as New() leaves them.
handleHTTPRequest(ts, flags, httpMethod, rPath, capParams, capSkipped) ==
  LET t     == get(ts, httpMethod)
      first == getValue(ts[t].root, rPath, capParams, <<>>, capSkipped)
      left  == IF t = 0 THEN <<>> ELSE first.skippedNodes
  IN  IF t # 0 /\ first.fault # "" THEN "panic"
      ELSE IF t # 0 /\ first.handlers # nilHandlers THEN "200"
      ELSE IF t # 0 /\ httpMethod # "CONNECT" /\ rPath # <<"/">>
                /\ first.tsr /\ flags.RedirectTrailingSlash THEN "redirect"
      ELSE IF flags.HandleMethodNotAllowed
        THEN notAllowed(ts, 1, httpMethod, rPath, left, capSkipped)
      ELSE "404"

\* An engine from New() on which HandleMethodNotAllowed and
\* RedirectTrailingSlash were set one way or the other.
InitServe ==
  /\ trees = <<>> /\ maxParams = 0 /\ maxSections = 0
  /\ srv \in {[routes |-> {}, flags |-> [HandleMethodNotAllowed |-> a,
                                          RedirectTrailingSlash |-> r],
               phase |-> "idle", method |-> "", path |-> <<>>, status |-> "",
               panic |-> ""] : a \in BOOLEAN, r \in BOOLEAN}
  /\ accepted = [p \in Patterns |-> 0]
  /\ last = "init" /\ arg = <<>> /\ panicMsg = "" /\ value = noValue
  /\ cp = Unused /\ ctx = Unused /\ rg = Unused /\ conc = Unused
  /\ rq = Unused /\ lk = Unused /\ rec = Unused /\ fix = Unused

\* Engine.addRoute(method, path, HandlersOf(path)), between requests.
ServeAddRoute(method, path) ==
  /\ srv.panic = "" /\ srv.phase = "idle"
  /\ Cardinality(srv.routes) < MaxServed
  /\ LET t    == get(trees, method)
         root == IF t = 0 THEN [newNode EXCEPT !.fullPath = <<"/">>] ELSE trees[t].root
         ts   == IF t = 0 THEN Append(trees, [method |-> method, root |-> root]) ELSE trees
         at   == IF t = 0 THEN Len(ts) ELSE t
         r    == addRoute(root, path, HandlersOf(path))
     IN  /\ trees' = [ts EXCEPT ![at].root = r.n]
         /\ IF r.panic = ""
              THEN /\ maxParams' = Max2(maxParams, countParams(path))
                   /\ maxSections' = Max2(maxSections, countSections(path))
                   /\ srv' = [srv EXCEPT !.routes = @ \cup {<<method, path>>}]
              ELSE /\ UNCHANGED <<maxParams, maxSections>>
                   /\ srv' = [srv EXCEPT !.panic = r.panic]
  /\ UNCHANGED besideServe

\* Engine.ServeHTTP for a request of method to rPath.
ServeHTTP(method, rPath) ==
  /\ srv.panic = "" /\ srv.phase = "idle"
  /\ srv' = [srv EXCEPT !.phase = "answered", !.method = method, !.path = rPath,
                        !.status = handleHTTPRequest(trees, srv.flags, method, rPath,
                                                     maxParams, maxSections)]
  /\ UNCHANGED <<trees, maxParams, maxSections>>
  /\ UNCHANGED besideServe

\* The response is written and the context goes back to the pool.
ServeDone ==
  /\ srv.phase = "answered"
  /\ srv' = [srv EXCEPT !.phase = "idle", !.method = "", !.path = <<>>, !.status = ""]
  /\ UNCHANGED <<trees, maxParams, maxSections>>
  /\ UNCHANGED besideServe

NextServe ==
  \/ \E method \in ServeMethods, path \in ServePatterns : ServeAddRoute(method, path)
  \/ \E method \in ServeMethods, rPath \in ServePaths : ServeHTTP(method, rPath)
  \/ ServeDone

SpecServe == InitServe /\ [][NextServe]_vars

\* A lookup of rPath in the tree of some method other than httpMethod, on a
\* stack of its own, returns handlers.
OtherTreeFinds(httpMethod, rPath) ==
  \E k \in 1..Len(trees) :
    /\ trees[k].method # httpMethod
    /\ getValue(trees[k].root, rPath, nilParams, <<>>, maxSections).handlers # nilHandlers

\* A route of some method other than httpMethod matches rPath.
OtherMethodMatches(httpMethod, rPath) ==
  \E route \in srv.routes : route[1] # httpMethod /\ Matches(route[2], rPath)

\* C17: a miss answered with an error status is a 405 exactly when method-
\* not-allowed detection is on and a route of another method matches the
\* path, which is when a lookup in another method's tree alone finds
\* handlers; else it is a 404.
C17_NotAllowedIffOtherMethod ==
  (srv.phase = "answered" /\ srv.status \in {"404", "405"})
    => /\ srv.status = "405" <=>
            (srv.flags.HandleMethodNotAllowed /\ OtherMethodMatches(srv.method, srv.path))
       /\ srv.status = "405" <=>
            (srv.flags.HandleMethodNotAllowed /\ OtherTreeFinds(srv.method, srv.path))

\* ------------------------------------------------------------------ goroutines

\* Goroutines serving requests at once.
MaxGoroutines == 2

Goroutines == 1..MaxGoroutines

\* Route lists an engine is built from before it serves.
ConcRouteLists == {<<UserId, AnyXY>>, <<AnyOne, Ux, UMid>>, <<UserPost, UserNe, AnyXY>>}

ConcPaths ==
  {<<"/", "u">>, <<"/", "u", "/", "x">>, <<"/", "u", "/", "x", "/", "y">>,
   <<"/", "u", "x">>, <<"/", "u", "/", "n", "e">>, <<"/", "x">>}

MaxOf(S) == CHOOSE m \in S : \A x \in S : m >= x

\* The engine after Engine.addRoute(Method, seq[k], HandlersOf(seq[k])) for
\* each k in order.
Built(seq) ==
  [trees       |-> <<[method |-> Method, root |-> Build(seq).n]>>,
   maxParams   |-> MaxOf({countParams(seq[k]) : k \in 1..Len(seq)}),
   maxSections |-> MaxOf({countSections(seq[k]) : k \in 1..Len(seq)})]

\* engine.pool.Get(): a context of the pool, which leaves the pool, or, when
\* the pool is empty or passes it over, a new one from allocateContext.
\* Contexts are numbered in the order of their allocation.
poolGetKeeping(pool, made) ==
  {[c |-> x, pool |-> pool, made |-> made] : x \in pool}
    \cup (IF pool = {} \/ made < MaxGoroutines
            THEN {[c |-> made + 1, pool |-> pool, made |-> made + 1]} ELSE {})

poolGet(pool, made) ==
  {[c |-> x, pool |-> pool \ {x}, made |-> made] : x \in pool}
    \cup (IF pool = {} \/ made < MaxGoroutines
            THEN {[c |-> made + 1, pool |-> pool, made |-> made + 1]} ELSE {})

\* The buffers of a context after Context.reset: *c.params and
\* *c.skippedNodes cut to length 0.
resetBuffers == [params |-> <<>>, skippedNodes |-> <<>>]

\* A goroutine between requests.
idle ==
  [phase |-> "idle", c |-> 0, pooled |-> FALSE, rPath |-> <<>>, n |-> newNode,
   path |-> <<>>, psNil |-> TRUE, gpc |-> 0, value |-> noValue]

\* An engine with its routes registered, before the first request.
InitConc ==
  /\ \E seq \in ConcRouteLists :
       /\ trees = Built(seq).trees
       /\ maxParams = Built(seq).maxParams
       /\ maxSections = Built(seq).maxSections
       /\ conc = [built |-> Built(seq).trees, pool |-> {}, made |-> 0, ctxs |-> <<>>,
                  reqs |-> [g \in Goroutines |-> idle]]
  /\ accepted = [p \in Patterns |-> 0]
  /\ last = "init" /\ arg = <<>> /\ panicMsg = "" /\ value = noValue
  /\ cp = Unused /\ ctx = Unused /\ rg = Unused /\ srv = Unused
  /\ rq = Unused /\ lk = Unused /\ rec = Unused /\ fix = Unused

\* Goroutine g enters Engine.ServeHTTP with a request of Method to rPath: it
\* gets a context from the pool, resets it, and handleHTTPRequest calls
\* root.getValue on the context's params and skippedNodes.
ConcServeHTTP(g, rPath) ==
  /\ conc.reqs[g].phase = "idle"
  /\ \E got \in poolGet(conc.pool, conc.made) :
       conc' = [conc EXCEPT
                  !.pool = got.pool,
                  !.made = got.made,
                  !.ctxs = IF got.c > Len(conc.ctxs) THEN Append(conc.ctxs, resetBuffers)
                           ELSE [conc.ctxs EXCEPT ![got.c] = resetBuffers],
                  !.reqs[g] = [idle EXCEPT !.phase = "walking", !.c = got.c,
                                           !.pooled = got.c <= conc.made,
                                           !.rPath = rPath,
                                           !.n = trees[get(trees, Method)].root,
                                           !.path = rPath]]
  /\ UNCHANGED <<trees, maxParams, maxSections>>
  /\ UNCHANGED besideConc

\* Goroutine g runs one turn of the walk loop of getValue.  params and
\* skippedNodes point into its context; n, path, value and
\* globalParamsCount are its own.  No turn assigns to a field of a node.
ConcWalk(g) ==
  /\ conc.reqs[g].phase = "walking"
  /\ LET r    == conc.reqs[g]
         bufs == conc.ctxs[r.c]
         turn == walkTurn(r.n, r.path,
                          [ps |-> bufs.params, psNil |-> r.psNil,
                           sk |-> bufs.skippedNodes, gpc |-> r.gpc],
                          maxParams, maxSections)
     IN  IF Continues(turn)
           THEN conc' = [conc EXCEPT
                           !.ctxs[r.c] = [params |-> turn.st.ps,
                                          skippedNodes |-> turn.st.sk],
                           !.reqs[g] = [r EXCEPT !.n = turn.n, !.path = turn.path,
                                                 !.psNil = turn.st.psNil,
                                                 !.gpc = turn.st.gpc]]
           ELSE conc' = [conc EXCEPT
                           !.ctxs[r.c] = [params |-> turn.params,
                                          skippedNodes |-> turn.skippedNodes],
                           !.reqs[g] = [r EXCEPT !.phase = "answered",
                                                 !.value = nodeValue(turn)]]
  /\ UNCHANGED <<trees, maxParams, maxSections>>
  /\ UNCHANGED besideConc

\* Goroutine g leaves Engine.ServeHTTP: engine.pool.Put(c).
ConcDone(g) ==
  /\ conc.reqs[g].phase = "answered"
  /\ conc' = [conc EXCEPT !.pool = @ \cup {conc.reqs[g].c}, !.reqs[g] = idle]
  /\ UNCHANGED <<trees, maxParams, maxSections>>
  /\ UNCHANGED besideConc

NextConc ==
  \/ \E g \in Goroutines, rPath \in ConcPaths : ConcServeHTTP(g, rPath)
  \/ \E g \in Goroutines : ConcWalk(g)
  \/ \E g \in Goroutines : ConcDone(g)

SpecConc == InitConc /\ [][NextConc]_vars

\* What a lookup hands the request.
Handed(v) ==
  [handlers |-> v.handlers, params |-> IF v.paramsNil THEN <<>> ELSE v.params,
   tsr |-> v.tsr, fullPath |-> v.fullPath, fault |-> v.fault]

\* C18: lookups never change the tree, and a lookup that ran while other
\* goroutines were looking paths up, each on a context of its own, returns
\* what the same lookup returns when it runs alone.
C18_ConcurrentLookupsAsSequential ==
  /\ trees = conc.built
  /\ \A g \in Goroutines :
       conc.reqs[g].phase = "answered"
         => Handed(conc.reqs[g].value)
              = Handed(getValue(trees[get(trees, Method)].root, conc.reqs[g].rPath,
                                maxParams, <<>>, maxSections))

\* A goroutine has its answer, with parameters, on a context taken from the
\* pool while another is in the middle of a walk with a node on its stack.
C18_Witness ==
  \E g, h \in Goroutines :
    /\ g # h
    /\ conc.reqs[g].phase = "answered"
    /\ conc.reqs[g].pooled
    /\ conc.reqs[g].value.handlers # nilHandlers
    /\ conc.reqs[g].value.params # <<>>
    /\ conc.reqs[h].phase = "walking"
    /\ conc.reqs[h].pooled
    /\ conc.ctxs[conc.reqs[h].c].skippedNodes # <<>>

\* ------------------------------------------------------------------ context

ErrorTypePrivate == 1

ErrorTypePublic == 2

\* Requests served through the context, and calls that handlers make on it
\* and on its copies over all of them.
MaxRequests == 2

MaxCalls == 3

\* The routes of the engine the context belongs to, and the paths requested.
CtxRoutes == <<UserId, AnyXY>>

CtxPaths == {<<"/", "u", "/", "x">>, <<"/", "u", "/", "x", "/", "y">>, <<"/", "x">>}

CtxKeys == {"user"}

\* Errors handed to Context.Error: nil, a plain error, and an *Error tagged
\* public (or an error wrapping one, in which errors.As finds it).
CtxErrors ==
  {[kind |-> "nil"], [kind |-> "plain", msg |-> "e"],
   [kind |-> "tagged", msg |-> "t", Type |-> ErrorTypePublic]}

\* A nil map; Go maps live in rq.maps, a Context holding the number of its map.
nilMap == 0

\* The zero Context.
zeroContext ==
  [index |-> 0, handlers |-> nilHandlers, Params |-> nilSlice, fullPath |-> <<>>,
   Keys |-> nilMap, Errors |-> nilSlice, Accepted |-> "nil", queryCache |-> "nil",
   formCache |-> "nil", sameSite |-> "nil", params |-> nilSlice,
   skippedNodes |-> nilSlice]

\* Engine.allocateContext: params and skippedNodes of length 0 with the
\* capacities maxParams and maxSections.
allocateContext(heap, capParams, capSections) ==
  LET v  == makeChain(heap, [j \in 1..capParams |-> NoHandler])
      sk == makeChain(v.heap, [j \in 1..capSections |-> NoHandler])
  IN  [heap |-> sk.heap,
       c    |-> [zeroContext EXCEPT !.params = [v.slice EXCEPT !.len = 0],
                                    !.skippedNodes = [sk.slice EXCEPT !.len = 0]]]

\* A reset that leaves Keys as it is.
resetKeepingKeys(c) ==
  [c EXCEPT !.Params.len = 0, !.handlers = nilHandlers, !.index = -1,
            !.fullPath = <<>>, !.Errors.len = 0, !.Accepted = "nil",
            !.queryCache = "nil", !.formCache = "nil", !.sameSite = "nil",
            !.params.len = 0, !.skippedNodes.len = 0]

\* Context.reset: slices are cut to length 0 and keep their arrays.
reset(c) ==
  [c EXCEPT !.Params.len = 0, !.handlers = nilHandlers, !.index = -1,
            !.fullPath = <<>>, !.Keys = nilMap, !.Errors.len = 0, !.Accepted = "nil",
            !.queryCache = "nil", !.formCache = "nil", !.sameSite = "nil",
            !.params.len = 0, !.skippedNodes.len = 0]

\* A Copy that takes the Params of the original as they are.
CopySharingParams(heap, maps, c) ==
  [heap |-> heap,
   maps |-> Append(maps, IF c.Keys = nilMap THEN <<>> ELSE maps[c.Keys]),
   c    |-> [zeroContext EXCEPT !.Params = c.Params, !.index = abortIndex,
                                !.Keys = Len(maps) + 1]]

\* Context.Copy: a new Context with index abortIndex, no handlers, a new map
\* holding the pairs of c.Keys and a new array holding the elements of
\* c.Params.  A map is a function from its keys; <<>> is the empty one.
Copy(heap, maps, c) ==
  LET paramCopy == makeChain(heap, Elems(heap, c.Params))
  IN  [heap |-> paramCopy.heap,
       maps |-> Append(maps, IF c.Keys = nilMap THEN <<>> ELSE maps[c.Keys]),
       c    |-> [zeroContext EXCEPT !.Params = paramCopy.slice, !.index = abortIndex,
                                    !.Keys = Len(maps) + 1]]

\* m[key] = value on a Go map.
MapSet(m, key, val) ==
  [k \in DOMAIN m \cup {key} |-> IF k = key THEN val ELSE m[k]]

\* Context.Set: the map is made at the first call.
Set(maps, c, key, val) ==
  IF c.Keys = nilMap
    THEN [maps |-> Append(maps, MapSet(<<>>, key, val)),
          c    |-> [c EXCEPT !.Keys = Len(maps) + 1]]
    ELSE [maps |-> [maps EXCEPT ![c.Keys] = MapSet(@, key, val)], c |-> c]

\* The *Error that Context.Error appends for a non-nil err: the one errors.As
\* finds in err, else a new one of type ErrorTypePrivate.
parsedError(err) ==
  IF err.kind = "tagged"
    THEN [Err |-> err.msg, Type |-> err.Type]
    ELSE [Err |-> err.msg, Type |-> ErrorTypePrivate]

\* An Error that puts the record in front of the list.
ErrorPrepending(heap, c, err, spare) ==
  IF err.kind = "nil" THEN [heap |-> heap, c |-> c, panic |-> "err is nil"]
  ELSE LET a == makeChain(heap, <<parsedError(err)>> \o Elems(heap, c.Errors))
       IN  [heap |-> a.heap, c |-> [c EXCEPT !.Errors = a.slice], panic |-> ""]

\* Context.Error
Error(heap, c, err, spare) ==
  IF err.kind = "nil" THEN [heap |-> heap, c |-> c, panic |-> "err is nil"]
  ELSE LET a == appendChain(heap, c.Errors, <<parsedError(err)>>, spare)
       IN  [heap |-> a.heap, c |-> [c EXCEPT !.Errors = a.slice], panic |-> ""]

\* One Context from allocateContext in the pool of an engine that has its
\* routes.
InitContext ==
  /\ trees = Built(CtxRoutes).trees
  /\ maxParams = Built(CtxRoutes).maxParams
  /\ maxSections = Built(CtxRoutes).maxSections
  /\ LET a == allocateContext(<<>>, Built(CtxRoutes).maxParams, Built(CtxRoutes).maxSections)
     IN  rq = [heap |-> a.heap, maps |-> <<>>, c |-> a.c, phase |-> "pooled",
               served |-> 0, calls |-> 0, panicked |-> FALSE, copies |-> <<>>,
               reported |-> <<>>, keys |-> <<>>, added |-> <<>>,
               lastCall |-> "", err |-> [kind |-> "nil"], before |-> <<>>]
  /\ accepted = [p \in Patterns |-> 0]
  /\ last = "init" /\ arg = <<>> /\ panicMsg = "" /\ value = noValue
  /\ cp = Unused /\ ctx = Unused /\ rg = Unused /\ srv = Unused /\ conc = Unused
  /\ lk = Unused /\ rec = Unused /\ fix = Unused

\* Engine.ServeHTTP up to the call of handleHTTPRequest: the context comes
\* out of the pool and is reset.
CtxGet ==
  /\ rq.phase = "pooled" /\ rq.served < MaxRequests
  /\ rq' = [rq EXCEPT !.c = reset(rq.c), !.phase = "reset", !.served = @ + 1,
                      !.panicked = FALSE, !.reported = <<>>, !.keys = <<>>,
                      !.added = <<>>, !.lastCall = "reset"]
  /\ UNCHANGED <<trees, maxParams, maxSections>>
  /\ UNCHANGED besideContext

\* Engine.handleHTTPRequest for rPath up to the call of the first handler:
\* the lookup writes into *c.params and *c.skippedNodes, c.Params becomes
\* *c.params if parameters were found, and c.Next() enters handler 0.  On a
\* miss the handlers are engine.allNoRoute, here nil.
CtxHandle(rPath) ==
  /\ rq.phase = "reset"
  /\ LET c  == rq.c
         v  == getValue(Root, rPath, c.params.cap, <<>>, c.skippedNodes.cap)
         ps == appendChain(rq.heap, c.params, v.params, 0)
         sk == appendChain(ps.heap, c.skippedNodes, v.skippedNodes, 0)
     IN  /\ v.fault = ""
         /\ rq' = [rq EXCEPT
                     !.heap = sk.heap,
                     !.c = [c EXCEPT !.params = ps.slice,
                                     !.skippedNodes = sk.slice,
                                     !.Params = IF v.paramsNil THEN @ ELSE ps.slice,
                                     !.handlers = v.handlers,
                                     !.fullPath = v.fullPath,
                                     !.index = indexOnNext(@)],
                     !.added = IF v.paramsNil THEN <<>> ELSE v.params,
                     !.phase = "serving", !.lastCall = "handle"]
  /\ UNCHANGED <<trees, maxParams, maxSections>>
  /\ UNCHANGED besideContext

CanCallOn ==
  rq.phase = "serving" /\ ~rq.panicked /\ rq.calls < MaxCalls

\* A handler calls c.Set(key, value); the value names the request.
CtxSet(key) ==
  /\ CanCallOn
  /\ LET a == Set(rq.maps, rq.c, key, rq.served)
     IN  rq' = [rq EXCEPT !.maps = a.maps, !.c = a.c, !.calls = @ + 1,
                          !.keys = MapSet(@, key, rq.served), !.lastCall = "Set"]
  /\ UNCHANGED <<trees, maxParams, maxSections>>
  /\ UNCHANGED besideContext

\* A handler calls c.Error(err).
CtxError(err, spare) ==
  /\ CanCallOn
  /\ LET a == Error(rq.heap, rq.c, err, spare)
     IN  rq' = [rq EXCEPT !.heap = a.heap, !.c = a.c, !.calls = @ + 1,
                          !.panicked = a.panic # "",
                          !.before = Elems(rq.heap, rq.c.Errors),
                          !.err = err,
                          !.reported = IF a.panic # "" THEN @
                                       ELSE Append(@, [of |-> err, request |-> rq.served]),
                          !.lastCall = "Error"]
  /\ UNCHANGED <<trees, maxParams, maxSections>>
  /\ UNCHANGED besideContext

\* A handler calls c.AddParam("n", value).
CtxAddParam(spare) ==
  /\ CanCallOn
  /\ LET a == appendChain(rq.heap, rq.c.Params, <<Param(<<"n">>, <<"v">>)>>, spare)
     IN  rq' = [rq EXCEPT !.heap = a.heap, !.c.Params = a.slice, !.calls = @ + 1,
                          !.added = Append(@, Param(<<"n">>, <<"v">>)),
                          !.lastCall = "AddParam"]
  /\ UNCHANGED <<trees, maxParams, maxSections>>
  /\ UNCHANGED besideContext

\* A handler calls SetAccepted, a query getter, a form getter and
\* SetSameSite, which fill Accepted, queryCache, formCache and sameSite.
CtxFill ==
  /\ CanCallOn
  /\ rq' = [rq EXCEPT !.c.Accepted = "set", !.c.queryCache = "set",
                      !.c.formCache = "set", !.c.sameSite = "set",
                      !.calls = @ + 1, !.lastCall = "fill"]
  /\ UNCHANGED <<trees, maxParams, maxSections>>
  /\ UNCHANGED besideContext

\* A handler calls c.Abort().
CtxAbort ==
  /\ CanCallOn
  /\ rq' = [rq EXCEPT !.c.index = abortIndex, !.calls = @ + 1, !.lastCall = "Abort"]
  /\ UNCHANGED <<trees, maxParams, maxSections>>
  /\ UNCHANGED besideContext

\* A handler calls c.Copy() and hands the copy to a goroutine that outlives
\* the request.
CtxCopy ==
  /\ CanCallOn /\ rq.copies = <<>>
  /\ LET a == Copy(rq.heap, rq.maps, rq.c)
     IN  rq' = [rq EXCEPT !.heap = a.heap, !.maps = a.maps, !.calls = @ + 1,
                          !.copies = <<[c |-> a.c, keys |-> rq.keys, added |-> rq.added,
                                        nexts |-> 0, panicked |-> FALSE]>>,
                          !.lastCall = "Copy"]
  /\ UNCHANGED <<trees, maxParams, maxSections>>
  /\ UNCHANGED besideContext

\* The goroutine that holds the copy calls Set on it.
CopySet(key) ==
  /\ rq.copies # <<>> /\ rq.calls < MaxCalls
  /\ LET a == Set(rq.maps, rq.copies[1].c, key, "copy")
     IN  rq' = [rq EXCEPT !.maps = a.maps, !.copies[1].c = a.c, !.calls = @ + 1,
                          !.copies[1].keys = MapSet(@, key, "copy"),
                          !.lastCall = "Set on copy"]
  /\ UNCHANGED <<trees, maxParams, maxSections>>
  /\ UNCHANGED besideContext

\* The goroutine that holds the copy calls AddParam on it.
CopyAddParam(spare) ==
  /\ rq.copies # <<>> /\ rq.calls < MaxCalls
  /\ LET a == appendChain(rq.heap, rq.copies[1].c.Params, <<Param(<<"c">>, <<"v">>)>>, spare)
     IN  rq' = [rq EXCEPT !.heap = a.heap, !.copies[1].c.Params = a.slice,
                          !.calls = @ + 1,
                          !.copies[1].added = Append(@, Param(<<"c">>, <<"v">>)),
                          !.lastCall = "AddParam on copy"]
  /\ UNCHANGED <<trees, maxParams, maxSections>>
  /\ UNCHANGED besideContext

\* The goroutine that holds the copy calls Next on it: c.index++, and the
\* loop over the handlers from there.
CopyNext ==
  /\ rq.copies # <<>> /\ rq.calls < MaxCalls
  /\ LET c     == rq.copies[1].c
         index == indexOnNext(c.index)
     IN  rq' = [rq EXCEPT !.copies[1].c.index = index,
                          !.copies[1].nexts = @ + 1,
                          !.copies[1].panicked = index < Int8(Len(c.handlers)),
                          !.calls = @ + 1,
                          !.lastCall = "Next on copy"]
  /\ UNCHANGED <<trees, maxParams, maxSections>>
  /\ UNCHANGED besideContext

\* The handlers return, or the recovery middleware ends the request after a
\* panic, and Engine.ServeHTTP puts the context back into the pool.
CtxDone ==
  /\ rq.phase = "serving"
  /\ rq' = [rq EXCEPT !.c.index = indexAfterHandler(@), !.phase = "pooled",
                      !.lastCall = "Put", !.err = [kind |-> "nil"], !.before = <<>>]
  /\ UNCHANGED <<trees, maxParams, maxSections>>
  /\ UNCHANGED besideContext

NextContext ==
  \/ CtxGet
  \/ \E rPath \in CtxPaths : CtxHandle(rPath)
  \/ \E key \in CtxKeys : CtxSet(key)
  \/ \E err \in CtxErrors, spare \in Spare : CtxError(err, spare)
  \/ \E spare \in Spare : CtxAddParam(spare)
  \/ CtxFill
  \/ CtxAbort
  \/ CtxCopy
  \/ \E key \in CtxKeys : CopySet(key)
  \/ \E spare \in Spare : CopyAddParam(spare)
  \/ CopyNext
  \/ CtxDone

SpecContext == InitContext /\ [][NextContext]_vars

\* C23: a context that came out of the pool and was reset is blank: index -1,
\* no handlers, no Params, a nil Keys map, no Errors, no fullPath, nil
\* negotiation, query and form caches and an empty backtracking stack,
\* whatever the requests before left in it.
C23_ResetContextIsBlank ==
  rq.phase = "reset"
    => /\ rq.c.index = -1
       /\ rq.c.handlers = nilHandlers
       /\ Elems(rq.heap, rq.c.Params) = <<>>
       /\ rq.c.Keys = nilMap
       /\ Elems(rq.heap, rq.c.Errors) = <<>>
       /\ rq.c.fullPath = <<>>
       /\ rq.c.Accepted = "nil" /\ rq.c.queryCache = "nil"
       /\ rq.c.formCache = "nil" /\ rq.c.sameSite = "nil"
       /\ Elems(rq.heap, rq.c.params) = <<>>
       /\ Elems(rq.heap, rq.c.skippedNodes) = <<>>

\* The context is reset for a second request after a request that found a
\* parameter, called Set and reported an error.
C23_Witness ==
  /\ rq.phase = "reset" /\ rq.served = 2
  /\ Len(rq.maps) > 0
  /\ rq.c.Errors.cap > 0
  /\ rq.c.Params.cap > 0

\* C24: the Params and Keys of a copy are those the original had at the
\* call of Copy, changed by the calls made on the copy alone, and those of
\* the original are what its own request gave it, through calls on either
\* and through the reuse of the original for another request; the copy has
\* no handlers, IsAborted() is true on it and Next() on it runs nothing.
C24_CopyIsIndependent ==
  /\ Elems(rq.heap, rq.c.Params) = rq.added
  /\ (IF rq.c.Keys = nilMap THEN <<>> ELSE rq.maps[rq.c.Keys]) = rq.keys
  /\ rq.copies # <<>>
       => /\ Elems(rq.heap, rq.copies[1].c.Params) = rq.copies[1].added
          /\ rq.maps[rq.copies[1].c.Keys] = rq.copies[1].keys
          /\ rq.copies[1].c.handlers = nilHandlers
          /\ rq.copies[1].c.index >= abortIndex
          /\ ~rq.copies[1].panicked
          /\ rq.copies[1].nexts = 0 => rq.copies[1].c.index = abortIndex

\* A copy made in the first request, with a parameter and a key, outlives it:
\* the original serves a second request with another parameter, and Next was
\* called on the copy.
C24_Witness ==
  /\ rq.copies # <<>>
  /\ rq.served = 2 /\ rq.phase = "serving"
  /\ rq.copies[1].added # <<>> /\ rq.added # <<>>
  /\ rq.copies[1].added # rq.added
  /\ DOMAIN rq.copies[1].keys # {}
  /\ rq.copies[1].nexts > 0

\* C26: the error list holds one record for each non-nil error reported in
\* the request, in the order of the reports, of type ErrorTypePrivate unless
\* the error is an *Error, whose type is kept; a call of Error appends to the
\* records that were there and changes none; Error(nil) panics and leaves
\* the list as it was.
C26_ErrorsAccumulateInOrder ==
  LET list == Elems(rq.heap, rq.c.Errors)
  IN  /\ Len(list) = Len(rq.reported)
      /\ \A k \in 1..Len(rq.reported) :
           /\ k <= Len(list)
           /\ list[k].Type = IF rq.reported[k].of.kind = "plain" THEN ErrorTypePrivate
                              ELSE rq.reported[k].of.Type
           /\ rq.reported[k].of.kind = "plain" => list[k].Err = rq.reported[k].of.msg
      /\ rq.lastCall = "Error"
           => /\ rq.panicked <=> rq.err.kind = "nil"
              /\ rq.panicked => list = rq.before
              /\ ~rq.panicked
                   => /\ Len(list) = Len(rq.before) + 1
                      /\ SubSeq(list, 1, Len(rq.before)) = rq.before

\* A plain error and then a tagged one were reported, and Error(nil)
\* panicked after them.
C26_Witness ==
  /\ rq.lastCall = "Error" /\ rq.panicked
  /\ Len(rq.reported) = 2
  /\ rq.reported[1].of.kind = "plain"
  /\ rq.reported[2].of.kind = "tagged"

\* ------------------------------------------------------------------ Keys and its lock

\* Methods of Context that touch c.Keys.  GetString stands for the typed
\* getters, which all go through Get.
KeysMethods == {"Set", "Get", "MustGet", "GetString", "Copy"}

\* The lock a method takes before it touches c.Keys: Set takes c.mu.Lock(),
\* Get c.mu.RLock(), MustGet and the typed getters call Get, Copy takes none.
lockTaken(method) ==
  IF method = "Set" THEN "Lock" ELSE IF method = "Copy" THEN "none" ELSE "RLock"

\* One Context that a handler shares with the goroutines it started.
InitKeys ==
  /\ lk = [Keys   |-> <<>>,
           made   |-> FALSE,
           mu     |-> [writer |-> 0, readers |-> {}],
           g      |-> [g \in Goroutines |-> [method |-> "", key |-> "", pc |-> "idle",
                                              got |-> "", raced |-> FALSE]],
           fatal  |-> FALSE]
  /\ RouterIdle
  /\ cp = Unused /\ ctx = Unused /\ rg = Unused /\ srv = Unused /\ conc = Unused
  /\ rq = Unused /\ rec = Unused /\ fix = Unused

\* Goroutine g calls method and gets through the lock the method takes.
\* Lock waits until no goroutine holds the mutex, RLock until no writer does.
KeysCall(g, method, key) ==
  /\ ~lk.fatal /\ lk.g[g].pc = "idle"
  /\ CASE lockTaken(method) = "Lock" ->
            /\ lk.mu.writer = 0 /\ lk.mu.readers = {}
            /\ lk' = [lk EXCEPT !.mu.writer = g,
                                !.g[g] = [method |-> method, key |-> key, pc |-> "in",
                                          got |-> "", raced |-> FALSE]]
       [] lockTaken(method) = "RLock" ->
            /\ lk.mu.writer = 0
            /\ lk' = [lk EXCEPT !.mu.readers = @ \cup {g},
                                !.g[g] = [method |-> method, key |-> key, pc |-> "in",
                                          got |-> "", raced |-> FALSE]]
       [] OTHER ->
            lk' = [lk EXCEPT !.g[g] = [method |-> method, key |-> key, pc |-> "in",
                                       got |-> "", raced |-> FALSE]]
  /\ UNCHANGED besideKeys

\* Goroutine g touches the map: Set makes it if it is nil and stores the
\* pair; a getter reads the value of its key; Copy ranges over the pairs.  A
\* store while another goroutine is at the map without the mutex is a data
\* race: the Go runtime may stop the program with "concurrent map read and
\* map write", and the reader may see the map before or after the store.
KeysAccess(g) ==
  /\ ~lk.fatal /\ lk.g[g].pc = "in"
  /\ LET me     == lk.g[g]
         others == {h \in Goroutines \ {g} : lk.g[h].pc = "in"}
         racing == IF me.method = "Set" THEN others
                   ELSE {h \in others : lk.g[h].method = "Set"}
     IN  \E fatal \in (IF racing = {} THEN {FALSE} ELSE BOOLEAN) :
           lk' = [lk EXCEPT
                    !.Keys = IF me.method = "Set" THEN MapSet(@, me.key, g) ELSE @,
                    !.made = IF me.method = "Set" THEN TRUE ELSE @,
                    !.fatal = fatal,
                    !.g[g].pc = "touched",
                    !.g[g].raced = racing # {},
                    !.g[g].got = IF me.method = "Set" THEN ""
                                 ELSE IF me.method = "Copy" THEN lk.Keys
                                 ELSE IF me.key \in DOMAIN lk.Keys THEN lk.Keys[me.key]
                                 ELSE "absent"]
  /\ UNCHANGED besideKeys

\* Goroutine g leaves the method: the deferred Unlock or RUnlock runs.
KeysReturn(g) ==
  /\ ~lk.fatal /\ lk.g[g].pc = "touched"
  /\ lk' = [lk EXCEPT !.mu.writer = IF @ = g THEN 0 ELSE @,
                      !.mu.readers = @ \ {g},
                      !.g[g].pc = "idle"]
  /\ UNCHANGED besideKeys

NextKeys ==
  \/ \E g \in Goroutines, method \in KeysMethods, key \in CtxKeys : KeysCall(g, method, key)
  \/ \E g \in Goroutines : KeysAccess(g)
  \/ \E g \in Goroutines : KeysReturn(g)

SpecKeys == InitKeys /\ [][NextKeys]_vars

\* C25: a goroutine that is at the map inside Set holds c.mu for writing,
\* and one that is at the map inside Get, MustGet, a typed getter or Copy
\* holds it for reading; so none of them is at the map while a Set of
\* another goroutine is.
C25_KeysOnlyUnderTheLock ==
  \A g \in Goroutines :
    lk.g[g].pc = "in"
      => /\ lk.g[g].method = "Set" => lk.mu.writer = g
         /\ lk.g[g].method # "Set" => g \in lk.mu.readers
         /\ lk.g[g].method # "Set"
              => \A h \in Goroutines \ {g} : ~(lk.g[h].pc = "in" /\ lk.g[h].method = "Set")

\* ------------------------------------------------------------------ recovery

StatusOK == 200

StatusInternalServerError == 500

\* Handlers of the chain: the function CustomRecoveryWithWriter returns, a
\* handler that returns, one that calls c.Next() and returns, one that
\* panics, one that panics with a *net.OpError of a broken pipe, and one
\* that writes the response and then panics.
HandlerKinds == {"Recovery", "Plain", "Next", "Panic", "BrokenPipe", "WriteThenPanic"}

\* The RecoveryFunc the middleware was made with: defaultHandleRecovery, one
\* that calls c.Abort(), and one that logs the panic and returns.
RecoveryFuncs == {"defaultHandleRecovery", "aborting", "logging"}

\* Lengths of the chains.
MaxRecChain == 3

\* responseWriter.WriteHeader(code) followed by WriteHeaderNow(): the status
\* is taken unless the header was written before.
AbortWithStatus(c, code) ==
  [c EXCEPT !.status = IF c.written THEN @ ELSE code,
            !.written = TRUE,
            !.index = abortIndex]

\* The deferred function of the recovery middleware on a recovered panic:
\* a broken connection gives c.Error(err) and c.Abort(), any other panic
\* goes to the RecoveryFunc.
recovered(c, brokenPipe) ==
  IF brokenPipe
    THEN [c EXCEPT !.Errors = Append(@, "broken pipe"), !.index = abortIndex]
  ELSE CASE c.handle = "defaultHandleRecovery" ->
              [AbortWithStatus(c, StatusInternalServerError) EXCEPT !.handleCalls = @ + 1]
         [] c.handle = "aborting" ->
              [c EXCEPT !.index = abortIndex, !.handleCalls = @ + 1]
         [] c.handle = "logging" ->
              [c EXCEPT !.handleCalls = @ + 1]

\* Positions (1-based) in the stack of the frames of recovery handlers.
RecoveryFrames(c) ==
  {k \in 1..Len(c.stack) :
     c.stack[k].kind = "handler" /\ c.handlers[c.stack[k].h + 1] = "Recovery"}

\* A reset context with a chain and a writer nothing was written to.
InitRecover ==
  /\ rec \in {[handlers |-> chain, handle |-> handle, index |-> -1, stack |-> <<>>,
               phase |-> "reset", status |-> StatusOK, written |-> FALSE,
               Errors |-> <<>>, handleCalls |-> 0, panicked |-> -1,
               brokenPipe |-> FALSE, recoveredBy |-> -1, since |-> <<>>] :
              chain \in UNION {[1..k -> HandlerKinds] : k \in 1..MaxRecChain},
              handle \in RecoveryFuncs}
  /\ RouterIdle
  /\ cp = Unused /\ ctx = Unused /\ rg = Unused /\ srv = Unused /\ conc = Unused
  /\ rq = Unused /\ lk = Unused /\ fix = Unused

\* Engine.handleHTTPRequest calls c.Next().
RecServe ==
  /\ rec.phase = "reset"
  /\ rec' = [rec EXCEPT !.phase = "running", !.index = indexOnNext(rec.index),
                        !.stack = <<NextFrame>>]
  /\ UNCHANGED besideRecover

\* One test of the loop of Next.
RecNextTurn ==
  /\ rec.phase = "running"
  /\ rec.stack[Len(rec.stack)].kind = "Next"
  /\ IF rec.index < Int8(Len(rec.handlers))
       THEN rec' = [rec EXCEPT !.stack = Append(@, HandlerFrame(rec.index)),
                               !.since = IF rec.panicked >= 0 THEN Append(@, rec.index)
                                         ELSE @]
       ELSE IF Len(rec.stack) = 1
              THEN rec' = [rec EXCEPT !.stack = <<>>, !.phase = "done"]
              ELSE rec' = [rec EXCEPT !.stack =
                             [k \in 1..(Len(rec.stack) - 1) |->
                                IF k = Len(rec.stack) - 1
                                  THEN [rec.stack[k] EXCEPT !.pc = @ + 1]
                                  ELSE rec.stack[k]]]
  /\ UNCHANGED besideRecover

\* The running handler, the recovery middleware or one that wraps the rest,
\* calls c.Next().
RecCallsNext ==
  /\ rec.phase = "running"
  /\ LET top == rec.stack[Len(rec.stack)]
     IN  /\ top.kind = "handler" /\ top.pc = 0
         /\ rec.handlers[top.h + 1] \in {"Recovery", "Next"}
         /\ rec' = [rec EXCEPT !.index = indexOnNext(rec.index),
                               !.stack = Append(@, NextFrame)]
  /\ UNCHANGED besideRecover

\* The running handler panics.  The stack unwinds to the innermost recovery
\* middleware, whose deferred function recovers; with none on the stack the
\* panic leaves Engine.ServeHTTP.
RecPanics ==
  /\ rec.phase = "running"
  /\ LET top    == rec.stack[Len(rec.stack)]
         kind   == rec.handlers[top.h + 1]
         wrote  == IF kind = "WriteThenPanic"
                     THEN [rec EXCEPT !.written = TRUE] ELSE rec
         frames == RecoveryFrames(rec)
         at     == MaxOf(frames)
     IN  /\ top.kind = "handler" /\ top.pc = 0
         /\ kind \in {"Panic", "BrokenPipe", "WriteThenPanic"}
         /\ IF frames = {}
              THEN rec' = [wrote EXCEPT !.phase = "crashed", !.stack = <<>>,
                                        !.panicked = top.h]
              ELSE rec' = [recovered(wrote, kind = "BrokenPipe") EXCEPT
                             !.stack = [k \in 1..at |->
                                          IF k = at THEN [rec.stack[k] EXCEPT !.pc = 1]
                                          ELSE rec.stack[k]],
                             !.panicked = top.h,
                             !.brokenPipe = kind = "BrokenPipe",
                             !.recoveredBy = rec.stack[at].h,
                             !.since = <<>>]
  /\ UNCHANGED besideRecover

\* The running handler returns into the loop of the Next that called it.
RecReturns ==
  /\ rec.phase = "running"
  /\ LET top == rec.stack[Len(rec.stack)]
     IN  /\ top.kind = "handler"
         /\ top.pc = 1 \/ rec.handlers[top.h + 1] = "Plain"
         /\ rec' = [rec EXCEPT !.index = indexAfterHandler(rec.index),
                               !.stack = SubSeq(@, 1, Len(@) - 1)]
  /\ UNCHANGED besideRecover

NextRecover ==
  \/ RecServe
  \/ RecNextTurn
  \/ RecCallsNext
  \/ RecPanics
  \/ RecReturns

SpecRecover == InitRecover /\ [][NextRecover]_vars

\* C22: after a panic that the recovery middleware recovered, no handler
\* that stands after the panicking one is started, whatever the RecoveryFunc;
\* a panic of a broken connection leaves one error and the context aborted
\* and the RecoveryFunc uncalled; any other panic under
\* defaultHandleRecovery leaves the context aborted with status 500.
C22_RecoveryStopsTheChain ==
  rec.recoveredBy >= 0
    => /\ rec.recoveredBy < rec.panicked
       /\ \A k \in 1..Len(rec.since) : rec.since[k] <= rec.panicked
       /\ rec.brokenPipe
            => /\ Len(rec.Errors) = 1
               /\ rec.index >= abortIndex
               /\ rec.handleCalls = 0
       /\ (~rec.brokenPipe /\ rec.handle = "defaultHandleRecovery")
            => /\ rec.index >= abortIndex
               /\ rec.status = StatusInternalServerError

\* ------------------------------------------------------- case-insensitive path

\* The letters of the routes and paths, lower case first.  Every other byte
\* is its own lower and upper case.
CasePairs ==
  {<<"u", "U">>, <<"x", "X">>, <<"n", "N">>, <<"e", "E">>, <<"y", "Y">>,
   <<"i", "I">>, <<"a", "A">>, <<"p", "P">>}

\* unicode.ToLower
ToLower(c) ==
  IF \E pr \in CasePairs : pr[2] = c THEN (CHOOSE pr \in CasePairs : pr[2] = c)[1] ELSE c

\* unicode.ToUpper
ToUpper(c) ==
  IF \E pr \in CasePairs : pr[1] = c THEN (CHOOSE pr \in CasePairs : pr[1] = c)[2] ELSE c

\* strings.EqualFold on strings of one-byte runes.
EqualFold(a, b) ==
  Len(a) = Len(b) /\ \A k \in 1..Len(a) : ToLower(a[k]) = ToLower(b[k])

emptyRuneBuffer == <<NUL, NUL, NUL, NUL>>

shiftNRuneBytes(rb, n) ==
  CASE n = 0 -> rb
    [] n = 1 -> <<rb[2], rb[3], rb[4], NUL>>
    [] n = 2 -> <<rb[3], rb[4], NUL, NUL>>
    [] n = 3 -> <<rb[4], NUL, NUL, NUL>>
    [] OTHER -> emptyRuneBuffer

\* utf8.EncodeRune(rb[:], r) for a rune of one byte.
EncodeRune(rb, r) == [rb EXCEPT ![1] = r]

\* What findCaseInsensitivePathRec returns: nil, a path, or a run-time panic.
nilPath == [found |-> FALSE, path |-> <<>>, fault |-> ""]

ciFound(path) == [found |-> TRUE, path |-> path, fault |-> ""]

ciFault(msg) == [found |-> FALSE, path |-> <<>>, fault |-> msg]

\* n.children[0], which findCaseInsensitivePathRec takes for the wildcard
\* child; addChild keeps the wildcard child last.
firstChild(n) == n.children[1]

\* node.findCaseInsensitivePathRec.  `continue walk` with another node is the
\* same call on that node: the state of the loop is n, path, ciPath and rb.
\* Runes are one byte long, so the rune of the path starts at oldPath[npLen]
\* and off is 0.
RECURSIVE findCaseInsensitivePathRec(_, _, _, _, _)
findCaseInsensitivePathRec(n, path0, ciPath0, rb0, fixTrailingSlash) ==
  LET npLen == Len(n.path)
  IN
  IF Len(path0) >= npLen /\ (npLen = 0 \/ EqualFold(Slice(path0, 1, npLen), From(n.path, 1)))
    THEN
      LET oldPath == path0
          path    == From(path0, npLen)
          ciPath  == ciPath0 \o n.path
          nothing == IF fixTrailingSlash /\ path = <<"/">> /\ n.handlers # nilHandlers
                       THEN ciFound(ciPath) ELSE nilPath
      IN
      IF Len(path) = 0
        THEN IF n.handlers # nilHandlers THEN ciFound(ciPath)
             ELSE IF fixTrailingSlash /\ indexOf(n.indices, "/") >= 0
               THEN LET i == indexOf(n.indices, "/")
                    IN  IF i >= Len(n.children) THEN ciFault("index out of range")
                        ELSE LET c == n.children[i + 1]
                             IN  IF Len(c.path) = 1 /\ c.handlers # nilHandlers
                                   THEN ciFound(Append(ciPath, "/"))
                                 ELSE IF c.nType # "catchAll" THEN nilPath
                                 ELSE IF Len(c.children) = 0 THEN ciFault("index out of range")
                                 ELSE IF c.children[1].handlers # nilHandlers
                                   THEN ciFound(Append(ciPath, "/"))
                                 ELSE nilPath
             ELSE nilPath
      ELSE IF ~n.wildChild
        THEN
          LET rb1 == shiftNRuneBytes(rb0, npLen)
          IN  IF rb1[1] # NUL
                THEN LET i == indexOf(n.indices, rb1[1])
                     IN  IF i < 0 THEN nothing
                         ELSE IF i >= Len(n.children) THEN ciFault("index out of range")
                         ELSE findCaseInsensitivePathRec(n.children[i + 1], path, ciPath,
                                                         rb1, fixTrailingSlash)
                ELSE
                  LET rv  == IF min(npLen, 3) > 0 THEN At(oldPath, npLen) ELSE NUL
                      lo  == ToLower(rv)
                      rb2 == shiftNRuneBytes(EncodeRune(rb1, lo), 0)
                      i   == indexOf(n.indices, rb2[1])
                      out == IF i < 0 THEN nilPath
                             ELSE IF i >= Len(n.children) THEN ciFault("index out of range")
                             ELSE findCaseInsensitivePathRec(n.children[i + 1], path, ciPath,
                                                             rb2, fixTrailingSlash)
                      up  == ToUpper(rv)
                      rb3 == shiftNRuneBytes(EncodeRune(rb2, up), 0)
                      j   == indexOf(n.indices, rb3[1])
                  IN  IF out.found \/ out.fault # "" THEN out
                      ELSE IF up # lo /\ j >= 0
                        THEN IF j >= Len(n.children) THEN ciFault("index out of range")
                             ELSE findCaseInsensitivePathRec(n.children[j + 1], path, ciPath,
                                                             rb3, fixTrailingSlash)
                      ELSE nothing
      ELSE IF Len(n.children) = 0 THEN ciFault("index out of range")
      ELSE
        LET c == firstChild(n)
        IN  CASE c.nType = "param" ->
                   LET end     == paramEnd(path)
                       ciParam == ciPath \o Slice(path, 0, end)
                   IN  IF end < Len(path)
                         THEN IF Len(c.children) > 0
                                THEN findCaseInsensitivePathRec(c.children[1], From(path, end),
                                                                ciParam, rb0, fixTrailingSlash)
                              ELSE IF fixTrailingSlash /\ Len(path) = end + 1
                                THEN ciFound(ciParam)
                              ELSE nilPath
                       ELSE IF c.handlers # nilHandlers THEN ciFound(ciParam)
                       ELSE IF fixTrailingSlash /\ Len(c.children) = 1
                                 /\ c.children[1].path = <<"/">>
                                 /\ c.children[1].handlers # nilHandlers
                         THEN ciFound(Append(ciParam, "/"))
                       ELSE nilPath
              [] c.nType = "catchAll" -> ciFound(ciPath \o path)
              [] OTHER -> ciFault("invalid node type")
  ELSE IF ~fixTrailingSlash THEN nilPath
  ELSE IF path0 = <<"/">> THEN ciFound(ciPath0)
  ELSE IF Len(path0) + 1 = npLen /\ At(n.path, Len(path0)) = "/"
    THEN IF Len(path0) = 0 THEN ciFault("slice bounds out of range")
         ELSE IF EqualFold(From(path0, 1), Slice(n.path, 1, Len(path0)))
                   /\ n.handlers # nilHandlers
           THEN ciFound(ciPath0 \o n.path)
         ELSE nilPath
  ELSE nilPath

\* node.findCaseInsensitivePath
findCaseInsensitivePath(n, path, fixTrailingSlash) ==
  findCaseInsensitivePathRec(n, path, <<>>, emptyRuneBuffer, fixTrailingSlash)

UpperUx   == <<"/", "U", "x">>
UserSlash == <<"/", "u", "/">>

\* Routes registered: static ones that differ in case or by the final '/',
\* and wildcard ones beside them.
FixRoutes == {UserId, UserNe, User, Ux, UpperUx, UserSlash, UserAll, AnyOne}

\* Request paths: registered paths in another case, with and without a final
\* '/', paths of no route, and one that cleanPath changes.
FixPaths ==
  {<<"/">>, <<"/", "u">>, <<"/", "U">>, <<"/", "u", "/">>, <<"/", "U", "/">>,
   <<"/", "u", "x">>, <<"/", "U", "X">>, <<"/", "u", "X", "/">>,
   <<"/", "u", "/", "n", "e">>, <<"/", "U", "/", "N", "E">>, <<"/", "u", "/", "N", "e", "/">>,
   <<"/", "u", "/", "X">>, <<"/", "U", "/", "x", "/">>, <<"/", "X">>, <<"/", "e", "/">>,
   <<"/", "U", "/", "/", "N", "E">>}

\* Successful registrations before the lookups.
MaxFixRoutes == 3

InitFix ==
  /\ fix = [routes |-> {}, phase |-> "idle", path |-> <<>>, fixTrailingSlash |-> FALSE,
            out |-> nilPath]
  /\ trees = <<>> /\ maxParams = 0 /\ maxSections = 0
  /\ accepted = [p \in Patterns |-> 0]
  /\ last = "init" /\ arg = <<>> /\ panicMsg = "" /\ value = noValue
  /\ cp = Unused /\ ctx = Unused /\ rg = Unused /\ srv = Unused /\ conc = Unused
  /\ rq = Unused /\ lk = Unused /\ rec = Unused

\* Engine.addRoute(Method, path, HandlersOf(path)) that returns; one that
\* panics ends the program before any request.
FixAddRoute(path) ==
  /\ fix.phase = "idle"
  /\ Cardinality(fix.routes) < MaxFixRoutes
  /\ LET t    == get(trees, Method)
         root == IF t = 0 THEN [newNode EXCEPT !.fullPath = <<"/">>] ELSE trees[t].root
         r    == addRoute(root, path, HandlersOf(path))
     IN  /\ r.panic = ""
         /\ trees' = <<[method |-> Method, root |-> r.n]>>
  /\ maxParams' = Max2(maxParams, countParams(path))
  /\ maxSections' = Max2(maxSections, countSections(path))
  /\ fix' = [fix EXCEPT !.routes = @ \cup {path}]
  /\ UNCHANGED besideFix

\* root.findCaseInsensitivePath(cleanPath(rPath), fixTrailingSlash), as
\* redirectFixedPath calls it.
FixPath(rPath, fixTrailingSlash) ==
  /\ fix.phase = "idle"
  /\ get(trees, Method) # 0
  /\ fix' = [fix EXCEPT !.phase = "fixed",
                        !.path = cleanPath(rPath).path,
                        !.fixTrailingSlash = fixTrailingSlash,
                        !.out = findCaseInsensitivePath(trees[get(trees, Method)].root,
                                                        cleanPath(rPath).path,
                                                        fixTrailingSlash)]
  /\ UNCHANGED <<trees, maxParams, maxSections, besideFix>>

\* The request is over.
FixDone ==
  /\ fix.phase = "fixed"
  /\ fix' = [fix EXCEPT !.phase = "idle", !.path = <<>>, !.fixTrailingSlash = FALSE,
                        !.out = nilPath]
  /\ UNCHANGED <<trees, maxParams, maxSections, besideFix>>

NextFix ==
  \/ \E path \in FixRoutes : FixAddRoute(path)
  \/ \E rPath \in FixPaths, fixTrailingSlash \in BOOLEAN : FixPath(rPath, fixTrailingSlash)
  \/ FixDone

SpecFix == InitFix /\ [][NextFix]_vars

\* out is path in another letter case, with one '/' added to or taken from
\* its end when slash is set.
OnlyCaseDiffers(path, out, slash) ==
  \/ EqualFold(path, out)
  \/ slash /\ EqualFold(Append(path, "/"), out)
  \/ slash /\ EqualFold(path, Append(out, "/"))

\* C27: on a tree of successful registrations findCaseInsensitivePath ends
\* without a run-time panic, and a path it returns differs from the request
\* path only in letter case, and in one final '/' when fixTrailingSlash is
\* set, and is a path getValue finds handlers for.
C27_FixedPathIsARoute ==
  fix.phase = "fixed"
    => /\ fix.out.fault = ""
       /\ fix.out.found
            => /\ OnlyCaseDiffers(fix.path, fix.out.path, fix.fixTrailingSlash)
               /\ getValue(Root, fix.out.path, maxParams, <<>>, maxSections).handlers
                    # nilHandlers

====
